---- MODULE Spec2Model ----
(***************************************************************************)
(* Vinuchi blog writer: the persistent preference/rule store               *)
(* (execution/vinuchi/persistent_memory.py) and the generate/validate      *)
(* retry loop (execution/vinuchi/generate_blog.py).                        *)
(*                                                                         *)
(* Text is a sequence of one-character strings.  Whitespace is " " and     *)
(* "\n"; "EN_DASH" and "BULLET" stand for the two non-ASCII characters the *)
(* validator looks for.  hashlib.md5 is taken to be injective: the digest  *)
(* of a text is represented by the normalised text it is computed from.    *)
(***************************************************************************)
EXTENDS Integers, Sequences, FiniteSets, TLC

VARIABLES
    memory,           \* the PersistentMemory instance (its four attributes)
    files,            \* the four JSON files under MEMORY_DIR
    now,              \* datetime.now()
    last_word_count,  \* VinuchiBlogGenerator._last_word_count (Unset: no attribute)
    gen,              \* the latest generate() call: its locals and its position
    provider_calls,   \* calls of client.messages.create made by the latest generate() or tweak_blog()
    usage,            \* the usage-tracking JSON file
    lastCall,         \* the last call that returned: name, arguments, result
    calls,            \* number of calls made so far
    other_memory,     \* the PersistentMemory instance of a second process on the same files
    db                \* the directories under MemoryDatabase.db_path and their files

vars == <<memory, files, now, last_word_count, gen, provider_calls, usage, lastCall, calls,
          other_memory, db>>

(***************************************************************************)
(* Text primitives (Python str methods)                                    *)
(***************************************************************************)
UpperChars == <<"A","B","C","D","E","F","G","H","I","J","K","L","M",
                "N","O","P","Q","R","S","T","U","V","W","X","Y","Z">>
LowerChars == <<"a","b","c","d","e","f","g","h","i","j","k","l","m",
                "n","o","p","q","r","s","t","u","v","w","x","y","z">>

LowerMap == [c \in {UpperChars[i] : i \in 1..26} |->
                LowerChars[CHOOSE i \in 1..26 : UpperChars[i] = c]]

\* one character of str.lower()
LowerChar(c) == IF c \in DOMAIN LowerMap THEN LowerMap[c] ELSE c

\* str.lower()
Lower(s) == <<>> \o [i \in 1..Len(s) |-> LowerChar(s[i])]

\* str.isspace() for one character
IsWs(c) == c = " " \/ c = "\n"

\* number of whitespace characters at the start of s (Len(s) when s is all whitespace)
LeadingWs(s) ==
    CHOOSE k \in 0..Len(s) : /\ k = Len(s) \/ ~IsWs(s[k + 1])
                             /\ \A m \in 1..k : IsWs(s[m])

\* number of whitespace characters at the end of s
TrailingWs(s) ==
    CHOOSE k \in 0..Len(s) : /\ k = Len(s) \/ ~IsWs(s[Len(s) - k])
                             /\ \A m \in 0..(k - 1) : IsWs(s[Len(s) - m])

\* str.strip()
Strip(s) ==
    IF LeadingWs(s) = Len(s) THEN <<>>
    ELSE SubSeq(s, LeadingWs(s) + 1, Len(s) - TrailingWs(s))

\* the positions where a word of str.split() starts
WordStarts(s) == {i \in 1..Len(s) : ~IsWs(s[i]) /\ (i = 1 \/ IsWs(s[i-1]))}

\* the position where the word starting at i ends
WordEnd(s, i) == CHOOSE j \in i..Len(s) : j = Len(s) \/ IsWs(s[j+1])

\* len(s.split())
WordCount(s) == Cardinality(WordStarts(s))

\* set(s.split())
WordSet(s) == {SubSeq(s, i, WordEnd(s, i)) : i \in WordStarts(s)}

\* sub in s
Contains(s, sub) == \E i \in 0..(Len(s) - Len(sub)) : SubSeq(s, i + 1, i + Len(sub)) = sub

\* s.startswith(prefix)
StartsWith(s, prefix) == Len(s) >= Len(prefix) /\ SubSeq(s, 1, Len(prefix)) = prefix

\* ' '.join(s.split()): whitespace runs inside become one space, those at the ends go
JoinSplit(s) ==
    LET last  == Len(s) - TrailingWs(s)
        pairs == <<>> \o [i \in 1..Len(s) |-> <<i, s[i]>>]
        kept  == SelectSeq(pairs, LAMBDA p :
                     \/ ~IsWs(p[2])
                     \/ p[1] > 1 /\ p[1] < last /\ ~IsWs(s[p[1] - 1]))
    IN <<>> \o [k \in 1..Len(kept) |-> IF IsWs(kept[k][2]) THEN " " ELSE kept[k][2]]

\* s.replace(c, '') for a single character c
RemoveChar(s, c) == SelectSeq(s, LAMBDA x : x # c)

Max(a, b) == IF a >= b THEN a ELSE b

(***************************************************************************)
(* Values                                                                  *)
(***************************************************************************)
NoTime == -1          \* a timestamp key that is not in the dict
Unset == -1           \* hasattr(self, '_last_word_count') is False
None == [type |-> "None"]

DefaultPreferences ==
    [banned_words |-> <<>>, required_elements |-> <<>>, style_notes |-> <<>>,
     keywords_to_include |-> <<>>, topics_to_avoid |-> <<>>,
     formatting_rules |-> <<>>, custom_rules |-> <<>>]

\* PersistentMemory.__init__ when no file exists
NewMemory ==
    [preferences |-> DefaultPreferences, generated_blogs |-> <<>>,
     learning_log |-> <<>>, content_hashes |-> <<>>]

\* A world is what one Store method reads and writes: the instance, the
\* files and the clock.
World == [mem |-> memory, disk |-> files, now |-> now]

\* self.preferences.get(key, [])
PrefList(w, key) ==
    IF key \in DOMAIN w.mem.preferences THEN w.mem.preferences[key] ELSE <<>>

\* self.preferences[key] = list (creates the key when it is missing)
SetPrefList(w, key, list) ==
    [w EXCEPT !.mem.preferences =
        [k \in (DOMAIN w.mem.preferences) \cup {key} |->
            IF k = key THEN list ELSE w.mem.preferences[k]]]

\* a save that writes the preferences file only, to compare with
_save_all_preferences(w) == [w EXCEPT !.disk.preferences = w.mem.preferences]

\* _save_json writes with json.dump what json.load reads back unchanged: dicts
\* with string keys, lists, strings, integers and booleans.  A file is
\* represented by the value that json.load gives for it.
_save_all(w) == [w EXCEPT !.disk = w.mem]

\* a _save_all that writes the content-hash index before the blogs, to
\* compare with
_save_all_stopped_index_first(w, written, torn) ==
    LET order == <<"preferences", "content_hashes", "learning_log", "generated_blogs">>
    IN [w EXCEPT !.disk =
           [f \in DOMAIN w.disk |->
               IF \E k \in 1..written : order[k] = f THEN w.mem[f]
               ELSE IF torn /\ order[written + 1] = f THEN NewMemory[f]
               ELSE w.disk[f]]]

\* _save_all when the process stops in it: the first `written` of its four
\* _save_json calls are done; with torn, the next one has opened its file for
\* writing and not finished json.dump, and _load_json will answer the default
\* for that file (json.JSONDecodeError)
_save_all_stopped(w, written, torn) ==
    LET order == <<"preferences", "generated_blogs", "learning_log", "content_hashes">>
    IN [w EXCEPT !.disk =
           [f \in DOMAIN w.disk |->
               IF \E k \in 1..written : order[k] = f THEN w.mem[f]
               ELSE IF torn /\ order[written + 1] = f THEN NewMemory[f]
               ELSE w.disk[f]]]

_log_learning(w, event_type, description) ==
    [w EXCEPT !.mem.learning_log =
        Append(@, [event_type |-> event_type, description |-> description,
                   timestamp |-> w.now])]

\* "for item in list: if match(item): item['active'] = False; item['removed_at'] = now"
Deactivate(list, matching, t) ==
    [i \in 1..Len(list) |->
        IF i \in matching THEN [list[i] EXCEPT !.active = FALSE, !.removed_at = t]
        ELSE list[i]]

(***************************************************************************)
(* Preferences                                                             *)
(***************************************************************************)
add_banned_word(w, word, reason) ==
    LET word_lower == Strip(Lower(word))
        existing == SelectSeq(PrefList(w, "banned_words"), LAMBDA r : r.word = word_lower)
    IN IF existing # <<>> THEN w
       ELSE _save_all(_log_learning(
                SetPrefList(w, "banned_words",
                    Append(PrefList(w, "banned_words"),
                        [word |-> word_lower, reason |-> reason, added_at |-> w.now,
                         active |-> TRUE, removed_at |-> NoTime])),
                "banned_word_added", <<word, reason>>))

remove_banned_word(w, word) ==
    LET word_lower == Strip(Lower(word))
    IN _save_all(_log_learning(
           SetPrefList(w, "banned_words",
               Deactivate(PrefList(w, "banned_words"),
                          {i \in 1..Len(PrefList(w, "banned_words")) :
                              PrefList(w, "banned_words")[i].word = word_lower}, w.now)),
           "banned_word_removed", <<word>>))

get_banned_words(w) ==
    LET act == SelectSeq(PrefList(w, "banned_words"), LAMBDA r : r.active)
    IN [i \in 1..Len(act) |-> act[i].word]

add_required_element(w, element, reason) ==
    _save_all(_log_learning(
        SetPrefList(w, "required_elements",
            Append(PrefList(w, "required_elements"),
                [element |-> element, reason |-> reason, added_at |-> w.now,
                 active |-> TRUE, removed_at |-> NoTime])),
        "required_element_added", <<element>>))

get_required_elements(w) ==
    LET act == SelectSeq(PrefList(w, "required_elements"), LAMBDA r : r.active)
    IN [i \in 1..Len(act) |-> act[i].element]

\* a hard delete, to compare with: the matching records leave the list
remove_required_element_hard(w, element) ==
    LET element_lower == Strip(Lower(element))
    IN _save_all(_log_learning(
           SetPrefList(w, "required_elements",
               SelectSeq(PrefList(w, "required_elements"),
                         LAMBDA item : Strip(Lower(item.element)) # element_lower)),
           "required_element_removed", <<element>>))

remove_required_element(w, element) ==
    LET element_lower == Strip(Lower(element))
    IN _save_all(_log_learning(
           SetPrefList(w, "required_elements",
               Deactivate(PrefList(w, "required_elements"),
                          {i \in 1..Len(PrefList(w, "required_elements")) :
                              Strip(Lower(PrefList(w, "required_elements")[i].element)) = element_lower}, w.now)),
           "required_element_removed", <<element>>))

add_style_note(w, note) ==
    _save_all(_log_learning(
        SetPrefList(w, "style_notes",
            Append(PrefList(w, "style_notes"),
                [note |-> note, added_at |-> w.now, active |-> TRUE, removed_at |-> NoTime])),
        "style_note_added", <<note>>))

get_style_notes(w) ==
    LET act == SelectSeq(PrefList(w, "style_notes"), LAMBDA r : r.active)
    IN [i \in 1..Len(act) |-> act[i].note]

remove_style_note(w, note) ==
    LET note_lower == Strip(Lower(note))
    IN _save_all(_log_learning(
           SetPrefList(w, "style_notes",
               Deactivate(PrefList(w, "style_notes"),
                          {i \in 1..Len(PrefList(w, "style_notes")) :
                              Strip(Lower(PrefList(w, "style_notes")[i].note)) = note_lower}, w.now)),
           "style_note_removed", <<note>>))

add_formatting_rule(w, rule) ==
    _save_all(_log_learning(
        SetPrefList(w, "formatting_rules",
            Append(PrefList(w, "formatting_rules"),
                [rule |-> rule, added_at |-> w.now, active |-> TRUE, removed_at |-> NoTime])),
        "formatting_rule_added", <<rule>>))

get_formatting_rules(w) ==
    LET act == SelectSeq(PrefList(w, "formatting_rules"), LAMBDA r : r.active)
    IN [i \in 1..Len(act) |-> act[i].rule]

remove_formatting_rule(w, rule) ==
    LET rule_lower == Strip(Lower(rule))
    IN _save_all(_log_learning(
           SetPrefList(w, "formatting_rules",
               Deactivate(PrefList(w, "formatting_rules"),
                          {i \in 1..Len(PrefList(w, "formatting_rules")) :
                              Strip(Lower(PrefList(w, "formatting_rules")[i].rule)) = rule_lower}, w.now)),
           "formatting_rule_removed", <<rule>>))

add_custom_rule(w, rule_type, rule_value, reason) ==
    _save_all(_log_learning(
        SetPrefList(w, "custom_rules",
            Append(PrefList(w, "custom_rules"),
                [type |-> rule_type, value |-> rule_value, reason |-> reason,
                 added_at |-> w.now, active |-> TRUE])),
        "custom_rule_added", <<rule_type, rule_value>>))

add_seo_keyword(w, keyword, context) ==
    LET keyword_clean == Strip(keyword)
        existing == SelectSeq(PrefList(w, "seo_keywords"),
                        LAMBDA k : Lower(k.keyword) = Lower(keyword_clean) /\ k.active)
    IN IF existing # <<>> THEN w
       ELSE _save_all(_log_learning(
                SetPrefList(w, "seo_keywords",
                    Append(PrefList(w, "seo_keywords"),
                        [keyword |-> keyword_clean, context |-> context, added_at |-> w.now,
                         active |-> TRUE, times_used |-> 0, removed_at |-> NoTime,
                         last_used |-> NoTime])),
                "seo_keyword_added", <<keyword_clean, context>>))

remove_seo_keyword(w, keyword) ==
    LET keyword_lower == Strip(Lower(keyword))
    IN IF "seo_keywords" \notin DOMAIN w.mem.preferences THEN w
       ELSE _save_all(_log_learning(
                SetPrefList(w, "seo_keywords",
                    Deactivate(PrefList(w, "seo_keywords"),
                               {i \in 1..Len(PrefList(w, "seo_keywords")) :
                                   Lower(PrefList(w, "seo_keywords")[i].keyword) = keyword_lower}, w.now)),
                "seo_keyword_removed", <<keyword>>))

\* an increment that leaves the files as they are, to compare with
increment_seo_keyword_usage_unsaved(w, keyword) ==
    LET keyword_lower == Strip(Lower(keyword))
        list == PrefList(w, "seo_keywords")
    IN IF "seo_keywords" \notin DOMAIN w.mem.preferences THEN w
       ELSE SetPrefList(w, "seo_keywords",
                [i \in 1..Len(list) |->
                    IF Lower(list[i].keyword) = keyword_lower /\ list[i].active
                    THEN [list[i] EXCEPT !.times_used = @ + 1, !.last_used = w.now]
                    ELSE list[i]])

increment_seo_keyword_usage(w, keyword) ==
    LET keyword_lower == Strip(Lower(keyword))
        list == PrefList(w, "seo_keywords")
    IN IF "seo_keywords" \notin DOMAIN w.mem.preferences THEN w
       ELSE _save_all(SetPrefList(w, "seo_keywords",
                [i \in 1..Len(list) |->
                    IF Lower(list[i].keyword) = keyword_lower /\ list[i].active
                    THEN [list[i] EXCEPT !.times_used = @ + 1, !.last_used = w.now]
                    ELSE list[i]]))

get_seo_keywords(w) ==
    IF "seo_keywords" \notin DOMAIN w.mem.preferences THEN <<>>
    ELSE LET act == SelectSeq(w.mem.preferences["seo_keywords"], LAMBDA k : k.active)
         IN [i \in 1..Len(act) |-> [keyword |-> act[i].keyword, context |-> act[i].context]]

(***************************************************************************)
(* Generated blogs                                                         *)
(***************************************************************************)
\* a hash that tells upper case from lower case, to compare with
_hash_content_cased(content) == JoinSplit(Strip(content))

\* hashlib.md5(normalized.encode()).hexdigest(), md5 taken as injective
_hash_content(content) == JoinSplit(Strip(Lower(content)))

\* a save whose id is made of the second alone, to compare with
save_generated_blog_timed(w, title, content, topic, status) ==
    LET blog_id == [time |-> w.now, n |-> 0]
        content_hash == _hash_content(content)
        blog_entry == [id |-> blog_id, title |-> title, content |-> content,
                       topic_requested |-> topic, content_hash |-> content_hash,
                       word_count |-> WordCount(content), status |-> status,
                       created_at |-> w.now, updated_at |-> w.now]
        w1 == [w EXCEPT !.mem.generated_blogs = Append(@, blog_entry),
                        !.mem.content_hashes =
                            Append(@, [hash |-> content_hash, blog_id |-> blog_id,
                                       title |-> title])]
    IN [world |-> _save_all(_log_learning(w1, "blog_generated", <<title>>)),
        ret |-> blog_id]

\* blog_id: the second of the clock and the number of blogs stored so far
save_generated_blog(w, title, content, topic, status) ==
    LET blog_id == [time |-> w.now, n |-> Len(w.mem.generated_blogs)]
        content_hash == _hash_content(content)
        blog_entry == [id |-> blog_id, title |-> title, content |-> content,
                       topic_requested |-> topic, content_hash |-> content_hash,
                       word_count |-> WordCount(content), status |-> status,
                       created_at |-> w.now, updated_at |-> w.now]
        w1 == [w EXCEPT !.mem.generated_blogs = Append(@, blog_entry),
                        !.mem.content_hashes =
                            Append(@, [hash |-> content_hash, blog_id |-> blog_id,
                                       title |-> title])]
    IN [world |-> _save_all(_log_learning(w1, "blog_generated", <<title>>)),
        ret |-> blog_id]

\* the first of the positions in hits, 0 when there is none
FirstIndex(hits) ==
    IF hits = {} THEN 0 ELSE CHOOSE i \in hits : \A j \in hits : i <= j

\* len(new_words & existing_words) / max(len(new_words), len(existing_words)),
\* kept as the pair <<numerator, denominator>>
Overlap(new_words, existing_words) ==
    <<Cardinality(new_words \cap existing_words),
      Max(Cardinality(new_words), Cardinality(existing_words))>>

\* the comparison with >= in place of >, to compare with
ExceedsOrEquals(overlap, threshold) ==
    overlap[1] * threshold.den >= threshold.num * overlap[2]

\* overlap > threshold, for a threshold num/den.  The quotient of two small
\* integers and the literal num/den round to the same double when they are
\* equal and differ by far more than one ulp when they are not.
Exceeds(overlap, threshold) ==
    overlap[1] * threshold.den > threshold.num * overlap[2]

is_duplicate(w, content, threshold) ==
    LET new_hash == _hash_content(content)
        e == FirstIndex({i \in 1..Len(w.mem.content_hashes) :
                            w.mem.content_hashes[i].hash = new_hash})
        new_words == WordSet(Lower(content))
        blogs == w.mem.generated_blogs
        overlap == [i \in 1..Len(blogs) |->
                       Overlap(new_words, WordSet(Lower(blogs[i].content)))]
        \* the loop stops at the first blog that divides by zero or exceeds
        stops == {i \in 1..Len(blogs) : overlap[i][2] = 0 \/ Exceeds(overlap[i], threshold)}
        b == FirstIndex(stops)
    IN IF e # 0
       THEN [type |-> "exact", blog_id |-> w.mem.content_hashes[e].blog_id,
             title |-> w.mem.content_hashes[e].title]
       ELSE IF b = 0 THEN None
       ELSE IF overlap[b][2] = 0 THEN [type |-> "ZeroDivisionError"]
       ELSE [type |-> "similar", blog_id |-> blogs[b].id, title |-> blogs[b].title,
             overlap |-> overlap[b]]

update_blog_status(w, blog_id, status) ==
    LET blogs == w.mem.generated_blogs
        b == FirstIndex({i \in 1..Len(blogs) : blogs[i].id = blog_id})
        w1 == IF b = 0 THEN w
              ELSE [w EXCEPT !.mem.generated_blogs[b] =
                        [@ EXCEPT !.status = status, !.updated_at = w.now]]
    IN _save_all(_log_learning(w1, "blog_status_updated", <<blog_id, status>>))

update_blog_content(w, blog_id, title, content) ==
    LET blogs == w.mem.generated_blogs
        b == FirstIndex({i \in 1..Len(blogs) : blogs[i].id = blog_id})
        w1 == IF b = 0 THEN w
              ELSE [w EXCEPT !.mem.generated_blogs[b] =
                        [@ EXCEPT !.title = title, !.content = content,
                                  !.word_count = WordCount(content),
                                  !.updated_at = w.now]]
    IN _save_all(_log_learning(w1, "blog_content_updated", <<blog_id>>))

\* a list of the approved blogs in the order of the store, to compare with
get_approved_blogs_unsorted(w) ==
    SelectSeq(w.mem.generated_blogs, LAMBDA b : b.status = "approved")

\* sorted(approved, key=updated_at, reverse=True).  The sort is stable, also
\* when reversed: blogs updated at the same time keep the order of the list.
get_approved_blogs(w) ==
    LET approved == SelectSeq(w.mem.generated_blogs, LAMBDA b : b.status = "approved")
        Before(i, j) == \/ approved[i].updated_at > approved[j].updated_at
                        \/ approved[i].updated_at = approved[j].updated_at /\ i < j
        Rank(i) == 1 + Cardinality({j \in 1..Len(approved) : Before(j, i)})
    IN <<>> \o [k \in 1..Len(approved) |->
                   approved[CHOOSE i \in 1..Len(approved) : Rank(i) = k]]

(***************************************************************************)
(* Content validation                                                      *)
(***************************************************************************)
DefaultThreshold == [num |-> 9, den |-> 10]    \* threshold: float = 0.9

\* the body of "for rule in self.get_formatting_rules()" for one rule
RuleIssues(rule, content) ==
    LET rule_lower == Lower(rule)
        NoDashes == <<"n","o"," ","d","a","s","h","e","s">>
        NeverUseDash == <<"n","e","v","e","r"," ","u","s","e"," ","d","a","s","h">>
        NoBullet == <<"n","o"," ","b","u","l","l","e","t">>
    IN (IF (Contains(rule_lower, NoDashes) \/ Contains(rule_lower, NeverUseDash))
           /\ (Contains(content, <<" ", "-", " ">>) \/ Contains(content, <<" ", "EN_DASH", " ">>))
        THEN <<[kind |-> "dashes"]>> ELSE <<>>)
       \o
       (IF Contains(rule_lower, NoBullet)
           /\ (Contains(content, <<"BULLET">>) \/ StartsWith(Strip(content), <<"-">>))
        THEN <<[kind |-> "bullets"]>> ELSE <<>>)

RECURSIVE FormattingIssues(_, _)
FormattingIssues(rules, content) ==
    IF rules = <<>> THEN <<>>
    ELSE RuleIssues(Head(rules), content) \o FormattingIssues(Tail(rules), content)

validate_content(w, content) ==
    LET content_lower == Lower(content)
        hit == SelectSeq(get_banned_words(w), LAMBDA word : Contains(content_lower, word))
        banned == [i \in 1..Len(hit) |-> [kind |-> "banned_word", word |-> hit[i]]]
        miss == SelectSeq(get_required_elements(w),
                          LAMBDA element : ~Contains(content_lower, Lower(element)))
        warnings == [i \in 1..Len(miss) |-> [kind |-> "missing_required", element |-> miss[i]]]
        formatting == FormattingIssues(get_formatting_rules(w), content)
        duplicate == is_duplicate(w, content, DefaultThreshold)
        issues == banned \o formatting \o
                  (IF duplicate.type \in {"exact", "similar"}
                   THEN <<[kind |-> "duplicate", title |-> duplicate.title]>> ELSE <<>>)
    IN IF duplicate.type = "ZeroDivisionError" THEN [type |-> "ZeroDivisionError"]
       ELSE [type |-> "validation", valid |-> Len(issues) = 0,
             issues |-> issues, warnings |-> warnings]

(***************************************************************************)
(* Usage limiter (usage_limiter.py).  The clock counts seconds.            *)
(***************************************************************************)
MAX_POSTS_PER_WINDOW == 10
WINDOW_HOURS == 12
SecondsPerHour == 3600

\* _load_usage when the file does not exist
NewUsage == [requests |-> <<>>, admin_reset_at |-> NoTime]

\* windows start at midnight and noon
_get_window_start(t) == t - (t % (WINDOW_HOURS * SecondsPerHour))

_clean_old_requests(data, t) ==
    LET window_start ==
            IF data.admin_reset_at # NoTime /\ data.admin_reset_at > _get_window_start(t)
            THEN data.admin_reset_at ELSE _get_window_start(t)
    IN [data EXCEPT !.requests = SelectSeq(@, LAMBDA req : req.timestamp >= window_start)]

\* a limit that lets one more call through, to compare with
check_limit_late(data, t) ==
    LET cleaned == _clean_old_requests(data, t)
        remaining == MAX_POSTS_PER_WINDOW - Len(cleaned.requests)
    IN [data |-> cleaned,
        allowed |-> ~(remaining < 0),
        remaining |-> IF remaining <= 0 THEN 0 ELSE remaining]

\* returns the file as check_limit leaves it, and (allowed, remaining)
check_limit(data, t) ==
    LET cleaned == _clean_old_requests(data, t)
        remaining == MAX_POSTS_PER_WINDOW - Len(cleaned.requests)
    IN [data |-> cleaned,
        allowed |-> ~(remaining <= 0),
        remaining |-> IF remaining <= 0 THEN 0 ELSE remaining]

record_usage(data, topic, t) ==
    [_clean_old_requests(data, t) EXCEPT
        !.requests = Append(@, [timestamp |-> t,
                                topic |-> IF topic = <<>> THEN <<"unknown">>
                                          ELSE SubSeq(topic, 1, IF Len(topic) < 100 THEN Len(topic) ELSE 100)])]

\* the fields of get_usage_stats that generate() reads
get_usage_stats(data, t) ==
    LET cleaned == _clean_old_requests(data, t)
    IN [data |-> cleaned,
        remaining |-> MAX_POSTS_PER_WINDOW - Len(cleaned.requests),
        limit |-> MAX_POSTS_PER_WINDOW]

admin_reset(data, t) == [data EXCEPT !.requests = <<>>, !.admin_reset_at = t]

(***************************************************************************)
(* Generator (generate_blog.py)                                            *)
(***************************************************************************)
MIN_WORDS == 550
MAX_WORDS == 600
WarnWords == 590              \* "elif word_count > 590"

\* a review that also rejects exactly MIN_WORDS words, to compare with
_review_blog_strict(title, content) ==
    LET word_count == WordCount(content)
        issues == IF word_count <= MIN_WORDS
                  THEN <<[kind |-> "word_count_too_low", word_count |-> word_count]>>
                  ELSE IF word_count > MAX_WORDS
                  THEN <<[kind |-> "word_count_exceeded", word_count |-> word_count]>>
                  ELSE <<>>
    IN [passed |-> Len(issues) = 0, word_count |-> word_count,
        issues |-> issues, warnings |-> <<>>]

_review_blog(title, content) ==
    LET word_count == WordCount(content)
        issues == IF word_count < MIN_WORDS
                  THEN <<[kind |-> "word_count_too_low", word_count |-> word_count]>>
                  ELSE IF word_count > MAX_WORDS
                  THEN <<[kind |-> "word_count_exceeded", word_count |-> word_count]>>
                  ELSE <<>>
        warnings == IF word_count >= MIN_WORDS /\ word_count <= MAX_WORDS
                       /\ word_count > WarnWords
                    THEN <<[kind |-> "word_count_slightly_high", word_count |-> word_count]>>
                    ELSE <<>>
    IN [passed |-> Len(issues) = 0, word_count |-> word_count,
        issues |-> issues, warnings |-> warnings]

\* lines = generated.strip().split('\n')
FirstNewline(g) == FirstIndex({i \in 1..Len(g) : g[i] = "\n"})

\* title = lines[0].replace('#', '').strip()
ParseTitle(generated) ==
    LET g == Strip(generated)
        nl == FirstNewline(g)
    IN Strip(RemoveChar(IF nl = 0 THEN g ELSE SubSeq(g, 1, nl - 1), "#"))

\* content = '\n'.join(lines[1:]).strip()
ParseContent(generated) ==
    LET g == Strip(generated)
        nl == FirstNewline(g)
    IN IF nl = 0 THEN <<>> ELSE Strip(SubSeq(g, nl + 1, Len(g)))

\* the adjustment of the user prompt on a retry: user_prompt.replace of
\* "550-590 words", which the last line of the prompt template holds, by
\* "STRICTLY 570-590 words - previous attempt was only N words, WRITE MORE" or
\* by "STRICTLY 550-580 words - previous attempt was too long"
CurrentUserPrompt(attempt, lwc) ==
    IF attempt > 1 /\ lwc # Unset /\ lwc < MIN_WORDS
    THEN [adjusted |-> "too_short", previous |-> lwc]
    ELSE IF attempt > 1 /\ lwc # Unset /\ lwc > MAX_WORDS
    THEN [adjusted |-> "too_long", previous |-> Unset]
    ELSE [adjusted |-> "no", previous |-> Unset]

\* a budget that follows the last word count on a first attempt too, to
\* compare with
MaxTokensKept(attempt, lwc) ==
    IF lwc # Unset /\ lwc < MIN_WORDS THEN 2500
    ELSE IF lwc # Unset /\ lwc > MAX_WORDS THEN 1500
    ELSE 2000

\* max_tokens of messages.create
MaxTokens(attempt, lwc) ==
    IF attempt > 1 /\ lwc # Unset /\ lwc < MIN_WORDS THEN 2500
    ELSE IF attempt > 1 THEN 1500
    ELSE 2000

\* a loop that tries again only after a draft that is too short, to compare with
ShouldRetryShort(review, attempt, max_attempts) ==
    review.word_count < MIN_WORDS /\ attempt < max_attempts

\* "if review['issues']: if attempt < max_attempts: continue"
ShouldRetry(review, attempt, max_attempts) ==
    Len(review.issues) > 0 /\ attempt < max_attempts

\* "Merge review issues into validation"
MergeValidation(validation, review) ==
    [valid |-> validation.valid /\ review.passed,
     issues |-> validation.issues \o review.issues,
     warnings |-> validation.warnings \o review.warnings]

NoBlogId == [time |-> NoTime, n |-> 0]       \* result has no "blog_id" key

GenIdle ==
    [pc |-> "idle", topic |-> <<>>, save |-> FALSE, max_attempts |-> 0, attempt |-> 0,
     request |-> [max_tokens |-> 0, prompt |-> CurrentUserPrompt(0, Unset)],
     generated |-> <<>>, title |-> <<>>, content |-> <<>>,
     review |-> _review_blog(<<>>, <<>>), result |-> None, store_at_call |-> NewMemory,
     provider_error |-> FALSE]

\* a generate() that goes on whatever check_limit answers, to compare with
GenerateStartUnchecked(topic, save, max_attempts) ==
    /\ gen.pc # "attempt"
    /\ usage' = check_limit(usage, now).data
    /\ provider_calls' = 0
    /\ gen' = [GenIdle EXCEPT !.pc = "attempt", !.topic = topic, !.save = save,
                              !.max_attempts = max_attempts, !.attempt = 1,
                              !.store_at_call = memory]
    /\ calls' = calls + 1
    /\ lastCall' = [op |-> "generate", ret |-> None,
                    arg |-> [topic |-> topic, save |-> save, max_attempts |-> max_attempts]]
    /\ UNCHANGED <<memory, files, last_word_count, other_memory, db>>

\* generate(): the usage check and the set-up before the loop
GenerateStart(topic, save, max_attempts) ==
    LET lim == check_limit(usage, now)
    IN /\ gen.pc # "attempt"
       /\ usage' = lim.data
       /\ provider_calls' = 0
       /\ gen' = IF ~lim.allowed
                 THEN [GenIdle EXCEPT !.pc = "raised", !.topic = topic, !.save = save,
                                      !.max_attempts = max_attempts,
                                      !.result = [type |-> "UsageLimitExceeded"],
                                      !.store_at_call = memory]
                 ELSE [GenIdle EXCEPT !.pc = "attempt", !.topic = topic, !.save = save,
                                      !.max_attempts = max_attempts, !.attempt = 1,
                                      !.store_at_call = memory]
       /\ calls' = calls + 1
       /\ lastCall' = [op |-> "generate", ret |-> None,
                       arg |-> [topic |-> topic, save |-> save, max_attempts |-> max_attempts]]
       /\ UNCHANGED <<memory, files, last_word_count, other_memory, db>>

\* one pass of the loop in which messages.create returns text `generated`;
\* when the loop is left, the rest of generate() runs to its return
GenerateAttempt(generated) ==
    LET request == [max_tokens |-> MaxTokens(gen.attempt, last_word_count),
                    prompt |-> CurrentUserPrompt(gen.attempt, last_word_count)]
        title == ParseTitle(generated)
        content == ParseContent(generated)
        review == _review_blog(title, content)
        g1 == [gen EXCEPT !.request = request, !.generated = generated, !.title = title,
                          !.content = content, !.review = review]
        validation == validate_content(World, generated)
        merged == MergeValidation(validation, review)
        saved == gen.save /\ merged.valid
        s == save_generated_blog(World, title, content, gen.topic, "draft")
        stats == get_usage_stats(record_usage(usage, gen.topic, now), now)
    IN /\ gen.pc = "attempt"
       /\ provider_calls' = provider_calls + 1
       /\ last_word_count' = review.word_count
       /\ IF ShouldRetry(review, gen.attempt, gen.max_attempts)
          THEN /\ gen' = [g1 EXCEPT !.attempt = @ + 1]
               /\ UNCHANGED <<memory, files, usage>>
          ELSE IF validation.type = "ZeroDivisionError"
          THEN /\ gen' = [g1 EXCEPT !.pc = "raised", !.result = validation]
               /\ UNCHANGED <<memory, files, usage>>
          ELSE /\ memory' = IF saved THEN s.world.mem ELSE memory
               /\ files' = IF saved THEN s.world.disk ELSE files
               /\ usage' = stats.data
               /\ gen' = [g1 EXCEPT
                            !.pc = "returned",
                            !.result = [type |-> "result", title |-> title,
                                        content |-> content, full_text |-> generated,
                                        topic_requested |-> gen.topic,
                                        word_count |-> review.word_count,
                                        generated_at |-> now, validation |-> merged,
                                        attempts |-> gen.attempt,
                                        blog_id |-> IF saved THEN s.ret ELSE NoBlogId,
                                        usage |-> [remaining |-> stats.remaining,
                                                   limit |-> stats.limit]]]
       /\ UNCHANGED <<lastCall, calls, other_memory, db>>

\* a loop that goes on to the next attempt after messages.create raised, to
\* compare with
GenerateProviderErrorRetry ==
    /\ gen.pc = "attempt"
    /\ provider_calls' = provider_calls + 1
    /\ gen' = IF gen.attempt < gen.max_attempts
              THEN [gen EXCEPT !.attempt = @ + 1, !.provider_error = TRUE]
              ELSE [gen EXCEPT !.pc = "returned", !.result = None, !.provider_error = TRUE]
    /\ UNCHANGED <<memory, files, last_word_count, usage, lastCall, calls, other_memory, db>>

\* one pass of the loop in which messages.create raises: "return None"
GenerateProviderError ==
    /\ gen.pc = "attempt"
    /\ provider_calls' = provider_calls + 1
    /\ gen' = [gen EXCEPT !.pc = "returned", !.result = None, !.provider_error = TRUE,
                          !.request = [max_tokens |-> MaxTokens(gen.attempt, last_word_count),
                                       prompt |-> CurrentUserPrompt(gen.attempt, last_word_count)]]
    /\ UNCHANGED <<memory, files, last_word_count, usage, lastCall, calls, other_memory, db>>

(***************************************************************************)
(* Surgical edits (generate_blog.py: tweak_blog).  Python's re and difflib *)
(* are modelled by what they compute on the texts of the model: letters,   *)
(* digits, "_", quotes, ":", "/", "-", "=", ">", "#", "." and whitespace.  *)
(***************************************************************************)
IsUpperChar(c) == c \in DOMAIN LowerMap
IsLowerChar(c) == \E i \in 1..26 : LowerChars[i] = c
IsCased(c) == IsUpperChar(c) \/ IsLowerChar(c)

\* one character of str.upper()
UpperChar(c) ==
    IF IsLowerChar(c) THEN UpperChars[CHOOSE i \in 1..26 : LowerChars[i] = c] ELSE c

\* str.upper()
Upper(s) == <<>> \o [i \in 1..Len(s) |-> UpperChar(s[i])]

\* str.isupper(): a cased character, and no lower-case one
isupper(s) ==
    /\ \E i \in 1..Len(s) : IsUpperChar(s[i])
    /\ \A i \in 1..Len(s) : ~IsLowerChar(s[i])

\* str.istitle(): upper case only after an uncased character, lower case only
\* after a cased one, and a cased character
istitle(s) ==
    /\ \E i \in 1..Len(s) : IsCased(s[i])
    /\ \A i \in 1..Len(s) :
         /\ IsUpperChar(s[i]) => (i = 1 \/ ~IsCased(s[i - 1]))
         /\ IsLowerChar(s[i]) => (i > 1 /\ IsCased(s[i - 1]))

\* str.title()
str_title(s) ==
    <<>> \o [i \in 1..Len(s) |->
                IF i = 1 \/ ~IsCased(s[i - 1]) THEN UpperChar(s[i]) ELSE LowerChar(s[i])]

\* \w
WordChars ==
    LET Digits == {"0", "1", "2", "3", "4", "5", "6", "7", "8", "9"}
    IN {LowerChars[i] : i \in 1..26} \cup {UpperChars[i] : i \in 1..26} \cup Digits \cup {"_"}
WsChars == {" ", "\n"}                                       \* \s
QuoteChars == {"'", "\""}                                    \* ['"]

\* the end of the longest run of characters of class that starts at i
\* (i itself when there is none)
RunEnd(s, i, class) ==
    CHOOSE j \in i..(Len(s) + 1) :
        /\ \A m \in i..(j - 1) : s[m] \in class
        /\ j = Len(s) + 1 \/ s[j] \notin class

\* s[i:].startswith(lit)
At(s, i, lit) == i + Len(lit) - 1 <= Len(s) /\ SubSeq(s, i, i + Len(lit) - 1) = lit

NoMatch == [matched |-> FALSE, groups |-> <<>>]

\* The match of the elements k, k+1, ... of a pattern at position i of s.
\* The elements: a literal text, \s+ (ws1), \s* (ws0), [:\s]+ (colon_ws1),
\* [-=]> (arrow), (?:the\s+)? (opt_the), ['"]?(\w+)['"]? (group), $ (end).
\* Each greedy element is followed by one that starts with a character
\* outside its class, so that the first way to match is the only one.
RECURSIVE MatchFrom(_, _, _, _)
MatchFrom(s, i, elements, k) ==
    IF k > Len(elements) THEN [matched |-> TRUE, groups |-> <<>>]
    ELSE LET e == elements[k]
             ws == RunEnd(s, i, WsChars)
             colon_ws == RunEnd(s, i, WsChars \cup {":"})
             KwThe == <<"t", "h", "e">>
             after_the == RunEnd(s, i + Len(KwThe), WsChars)
             with_the == MatchFrom(s, after_the, elements, k + 1)
             open == IF i <= Len(s) /\ s[i] \in QuoteChars THEN i + 1 ELSE i
             word_end == RunEnd(s, open, WordChars)
             close == IF word_end <= Len(s) /\ s[word_end] \in QuoteChars
                      THEN word_end + 1 ELSE word_end
             rest == MatchFrom(s, close, elements, k + 1)
         IN CASE e.kind = "lit" ->
                     IF At(s, i, e.text) THEN MatchFrom(s, i + Len(e.text), elements, k + 1)
                     ELSE NoMatch
              [] e.kind = "ws1" ->
                     IF ws > i THEN MatchFrom(s, ws, elements, k + 1) ELSE NoMatch
              [] e.kind = "ws0" -> MatchFrom(s, ws, elements, k + 1)
              [] e.kind = "colon_ws1" ->
                     IF colon_ws > i THEN MatchFrom(s, colon_ws, elements, k + 1) ELSE NoMatch
              [] e.kind = "arrow" ->
                     IF i + 1 <= Len(s) /\ s[i] \in {"-", "="} /\ s[i + 1] = ">"
                     THEN MatchFrom(s, i + 2, elements, k + 1) ELSE NoMatch
              [] e.kind = "opt_the" ->
                     IF At(s, i, KwThe) /\ after_the > i + Len(KwThe) /\ with_the.matched
                     THEN with_the
                     ELSE MatchFrom(s, i, elements, k + 1)
              [] e.kind = "group" ->
                     IF word_end > open /\ rest.matched
                     THEN [matched |-> TRUE,
                           groups |-> <<SubSeq(s, open, word_end - 1)>> \o rest.groups]
                     ELSE NoMatch
              [] e.kind = "end" ->
                     IF i = Len(s) + 1 THEN MatchFrom(s, i, elements, k + 1) ELSE NoMatch

\* re.search(pattern, s): the match at the first position that has one
re_search(pattern, s) ==
    LET starts == IF pattern.anchored THEN {1} ELSE 1..(Len(s) + 1)
        hits == {i \in starts : MatchFrom(s, i, pattern.elements, 1).matched}
    IN IF hits = {} THEN NoMatch ELSE MatchFrom(s, FirstIndex(hits), pattern.elements, 1)

\* the list "patterns" of _try_simple_replacement
patterns ==
    LET Lit(text) == [kind |-> "lit", text |-> text]
        Ws1 == [kind |-> "ws1"]
        Ws0 == [kind |-> "ws0"]
        ColonWs1 == [kind |-> "colon_ws1"]
        Arrow == [kind |-> "arrow"]
        OptThe == [kind |-> "opt_the"]
        Group == [kind |-> "group"]
        End == [kind |-> "end"]
        KwReplace == <<"r", "e", "p", "l", "a", "c", "e">>
        KwWith == <<"w", "i", "t", "h">>
        KwChange == <<"c", "h", "a", "n", "g", "e">>
        KwTo == <<"t", "o">>
        KwUse == <<"u", "s", "e">>
        KwInstead == <<"i", "n", "s", "t", "e", "a", "d">>
        KwOf == <<"o", "f">>
        KwSwap == <<"s", "w", "a", "p">>
        KwFor == <<"f", "o", "r">>
        KwFix == <<"f", "i", "x">>
        KwSpelling == <<"s", "p", "e", "l", "l", "i", "n", "g">>
        Slash == <<"/">>
    IN <<
    [anchored |-> FALSE, swap_groups |-> FALSE,
     elements |-> <<Lit(KwReplace), Ws1, Group, Ws1, Lit(KwWith), Ws1, Group>>],
    [anchored |-> FALSE, swap_groups |-> FALSE,
     elements |-> <<Lit(KwChange), Ws1, Group, Ws1, Lit(KwTo), Ws1, Group>>],
    [anchored |-> FALSE, swap_groups |-> TRUE,
     elements |-> <<Lit(KwUse), Ws1, Group, Ws1, Lit(KwInstead), Ws1, Lit(KwOf), Ws1, Group>>],
    [anchored |-> FALSE, swap_groups |-> FALSE,
     elements |-> <<Lit(KwSwap), Ws1, Group, Ws1, Lit(KwFor), Ws1, Group>>],
    [anchored |-> TRUE, swap_groups |-> FALSE,
     elements |-> <<Group, Ws1, Lit(KwTo), Ws1, Group, End>>],
    [anchored |-> TRUE, swap_groups |-> FALSE,
     elements |-> <<Group, Ws0, Arrow, Ws0, Group, End>>],
    [anchored |-> TRUE, swap_groups |-> FALSE,
     elements |-> <<Group, Ws0, Lit(Slash), Ws0, Group, End>>],
    [anchored |-> FALSE, swap_groups |-> FALSE,
     elements |-> <<Lit(KwFix), Ws1, OptThe, Lit(KwSpelling), ColonWs1, Group, Ws1,
                    Lit(KwTo), Ws1, Group>>],
    [anchored |-> FALSE, swap_groups |-> FALSE,
     elements |-> <<Lit(KwSpelling), ColonWs1, Group, Ws1, Lit(KwTo), Ws1, Group>>] >>

\* a replacement that writes the new word in lower case whatever it replaces,
\* to compare with
case_preserving_replace_lower(original, new_word) == Lower(new_word)

case_preserving_replace(original, new_word) ==
    IF isupper(original) THEN Upper(new_word)
    ELSE IF istitle(original) THEN str_title(new_word)
    ELSE Lower(new_word)

\* re.sub(re.escape(old_word), case_preserving_replace, text, flags=re.IGNORECASE),
\* for the part of text from position i on
RECURSIVE re_sub(_, _, _, _)
re_sub(old_word, new_word, text, i) ==
    LET j == i + Len(old_word) - 1
    IN IF i > Len(text) THEN <<>>
       ELSE IF j <= Len(text) /\ Lower(SubSeq(text, i, j)) = Lower(old_word)
       THEN case_preserving_replace(SubSeq(text, i, j), new_word)
                \o re_sub(old_word, new_word, text, j + 1)
       ELSE <<text[i]>> \o re_sub(old_word, new_word, text, i + 1)

\* the loop "for pattern, swap_groups in patterns", from pattern k on
RECURSIVE TryPatterns(_, _, _, _)
TryPatterns(title, content, instruction, k) ==
    IF k > Len(patterns) THEN None
    ELSE LET instruction_lower == Strip(Lower(instruction))
             match == re_search(patterns[k], instruction_lower)
             old_word == IF patterns[k].swap_groups THEN match.groups[2] ELSE match.groups[1]
             new_word == IF patterns[k].swap_groups THEN match.groups[1] ELSE match.groups[2]
             new_content == re_sub(old_word, new_word, content, 1)
             new_title == re_sub(old_word, new_word, title, 1)
         IN IF match.matched /\ (new_content # content \/ new_title # title)
            THEN [title |-> new_title, content |-> new_content,
                  word_count |-> WordCount(new_content),
                  title_changed |-> new_title # title,
                  content_changed |-> new_content # content,
                  tweak_instruction |-> instruction,
                  method |-> "direct_replacement", success |-> TRUE]
            ELSE TryPatterns(title, content, instruction, k + 1)

_try_simple_replacement(title, content, instruction) ==
    TryPatterns(title, content, instruction, 1)

\* difflib.SequenceMatcher: the length of the block a[i..] = b[j..] inside
\* a[..ahi] and b[..bhi]
RECURSIVE CommonRun(_, _, _, _, _, _)
CommonRun(a, i, ahi, b, j, bhi) ==
    IF i <= ahi /\ j <= bhi /\ a[i] = b[j] THEN 1 + CommonRun(a, i + 1, ahi, b, j + 1, bhi)
    ELSE 0

\* SequenceMatcher.find_longest_match without junk: the longest block, of
\* those the one that starts earliest in a, of those the earliest in b
find_longest_match(a, alo, ahi, b, blo, bhi) ==
    LET runs == {<<i, j, CommonRun(a, i, ahi, b, j, bhi)>> :
                    <<i, j>> \in {p \in (alo..ahi) \X (blo..bhi) : a[p[1]] = b[p[2]]}}
        best == CHOOSE r \in runs : \A q \in runs :
                    \/ r[3] > q[3]
                    \/ r[3] = q[3] /\ r[1] < q[1]
                    \/ r[3] = q[3] /\ r[1] = q[1] /\ r[2] <= q[2]
    IN IF runs = {} THEN [i |-> alo, j |-> blo, size |-> 0]
       ELSE [i |-> best[1], j |-> best[2], size |-> best[3]]

\* the sum of the sizes of SequenceMatcher.get_matching_blocks()
RECURSIVE MatchedChars(_, _, _, _, _, _)
MatchedChars(a, alo, ahi, b, blo, bhi) ==
    IF alo > ahi \/ blo > bhi THEN 0
    ELSE LET m == find_longest_match(a, alo, ahi, b, blo, bhi)
         IN IF m.size = 0 THEN 0
            ELSE m.size + MatchedChars(a, alo, m.i - 1, b, blo, m.j - 1)
                        + MatchedChars(a, m.i + m.size, ahi, b, m.j + m.size, bhi)

\* 1 - SequenceMatcher(None, original, modified).ratio(), as a fraction;
\* ratio() is 2.0 * matches / length, and 1.0 for two empty texts
_calculate_change_ratio(original, modified) ==
    LET length == Len(original) + Len(modified)
        matches == MatchedChars(original, 1, Len(original), modified, 1, Len(modified))
    IN IF length = 0 THEN [num |-> 0, den |-> 1]
       ELSE [num |-> length - 2 * matches, den |-> length]

WordPercent == 5            \* max_allowed_change = 0.05
RewritePercent == 15        \* max_allowed_change = 0.15

\* ['paragraph', 'section', 'rewrite', 'redo']
RewriteTerms ==
    {<<"p", "a", "r", "a", "g", "r", "a", "p", "h">>, <<"s", "e", "c", "t", "i", "o", "n">>,
     <<"r", "e", "w", "r", "i", "t", "e">>, <<"r", "e", "d", "o">>}

\* a threshold that is 15% whatever the instruction says, to compare with
max_allowed_change_wide(tweak_instruction) == RewritePercent

\* max_allowed_change, in percent
max_allowed_change(tweak_instruction) ==
    IF \E x \in RewriteTerms : Contains(Lower(tweak_instruction), x)
    THEN RewritePercent ELSE WordPercent

\* "content_change_ratio > max_allowed_change" in binary floating point:
\* 1 - 0.95 and 1 - 0.85 come out above 0.05 and 0.15, so that a ratio
\* equal to the threshold is also beyond it
ChangeTooLarge(ratio, percent) == ratio.num * 100 >= percent * ratio.den

\* s.replace(old, '') for the part of s from position i on
RECURSIVE Removed(_, _, _)
Removed(s, old, i) ==
    IF i > Len(s) THEN <<>>
    ELSE IF At(s, i, old) THEN Removed(s, old, i + Len(old))
    ELSE <<s[i]>> \o Removed(s, old, i + 1)

\* new_title = lines[0].replace('#', '').replace('TITLE:', '').strip()
ParseNewTitle(text) ==
    LET modified == Strip(text)
        nl == FirstNewline(modified)
        KwTitle == <<"T", "I", "T", "L", "E", ":">>
    IN Strip(Removed(RemoveChar(IF nl = 0 THEN modified ELSE SubSeq(modified, 1, nl - 1), "#"),
                     KwTitle, 1))

\* new_content = '\n'.join(lines[1:]).strip(), without a "CONTENT:" before it
ParseNewContent(text) ==
    LET modified == Strip(text)
        nl == FirstNewline(modified)
        joined == IF nl = 0 THEN <<>> ELSE Strip(SubSeq(modified, nl + 1, Len(modified)))
        KwContent == <<"C", "O", "N", "T", "E", "N", "T", ":">>
    IN IF StartsWith(Upper(joined), KwContent)
       THEN Strip(SubSeq(joined, Len(KwContent) + 1, Len(joined)))
       ELSE joined

\* what messages.create does: it returns a text or raises
Returns(text) == [raises |-> FALSE, text |-> text, message |-> ""]
Raises(message) == [raises |-> TRUE, text |-> <<>>, message |-> message]

EditRejected == "The edit changed too much of the content"

\* a tweak that hands back whatever the provider wrote, to compare with
tweak_blog_unguarded(title, content, tweak_instruction, outcome) ==
    LET simple_result == _try_simple_replacement(title, content, tweak_instruction)
        new_title == ParseNewTitle(outcome.text)
        new_content == ParseNewContent(outcome.text)
        content_change_ratio == _calculate_change_ratio(content, new_content)
    IN IF simple_result # None THEN [ret |-> simple_result, provider_calls |-> 0]
       ELSE IF outcome.raises
       THEN [ret |-> [title |-> title, content |-> content,
                      word_count |-> WordCount(content), success |-> FALSE,
                      error |-> outcome.message],
             provider_calls |-> 1]
       ELSE [ret |-> [title |-> new_title, content |-> new_content,
                      word_count |-> WordCount(new_content),
                      title_changed |-> Upper(new_title) # Upper(title),
                      content_changed |-> new_content # content,
                      tweak_instruction |-> tweak_instruction,
                      change_ratio |-> content_change_ratio,
                      method |-> "llm_surgical", success |-> TRUE],
             provider_calls |-> 1]

\* tweak_blog(title, content, tweak_instruction), with what the one call of
\* messages.create does when it is reached
tweak_blog(title, content, tweak_instruction, outcome) ==
    LET simple_result == _try_simple_replacement(title, content, tweak_instruction)
        new_title == ParseNewTitle(outcome.text)
        new_content == ParseNewContent(outcome.text)
        content_change_ratio == _calculate_change_ratio(content, new_content)
    IN IF simple_result # None THEN [ret |-> simple_result, provider_calls |-> 0]
       ELSE IF outcome.raises
       THEN [ret |-> [title |-> title, content |-> content,
                      word_count |-> WordCount(content), success |-> FALSE,
                      error |-> outcome.message],
             provider_calls |-> 1]
       ELSE IF ChangeTooLarge(content_change_ratio, max_allowed_change(tweak_instruction))
       THEN [ret |-> [title |-> title, content |-> content,
                      word_count |-> WordCount(content), success |-> FALSE,
                      error |-> EditRejected],
             provider_calls |-> 1]
       ELSE [ret |-> [title |-> new_title, content |-> new_content,
                      word_count |-> WordCount(new_content),
                      title_changed |-> Upper(new_title) # Upper(title),
                      content_changed |-> new_content # content,
                      tweak_instruction |-> tweak_instruction,
                      change_ratio |-> content_change_ratio,
                      method |-> "llm_surgical", success |-> TRUE],
             provider_calls |-> 1]

(***************************************************************************)
(* Learning from feedback (persistent_memory.py)                           *)
(***************************************************************************)

\* s.replace(old, new) for the part of s from position i on
RECURSIVE Replaced(_, _, _, _)
Replaced(s, old, new, i) ==
    IF i > Len(s) THEN <<>>
    ELSE IF At(s, i, old) THEN new \o Replaced(s, old, new, i + Len(old))
    ELSE <<s[i]>> \o Replaced(s, old, new, i + 1)

\* s.split(sep)[1], for an s with sep in it: what stands between the first
\* sep and the next one
SecondPart(s, sep) ==
    LET first == FirstIndex({i \in 1..Len(s) : At(s, i, sep)})
        from == first + Len(sep)
        next == FirstIndex({i \in from..Len(s) : At(s, i, sep)})
    IN SubSeq(s, from, IF next = 0 THEN Len(s) ELSE next - 1)

\* s.strip().strip('"\'')
StripQuotes(s) ==
    LET t == Strip(s)
        lead == RunEnd(t, 1, QuoteChars)
        trail == CHOOSE j \in 0..Len(t) :
                     /\ \A m \in (j + 1)..Len(t) : t[m] \in QuoteChars
                     /\ j = 0 \/ t[j] \notin QuoteChars
    IN IF lead > trail THEN <<>> ELSE SubSeq(t, lead, trail)

learn_from_feedback(w, feedback_type, feedback) ==
    LET w1 == _log_learning(w, "user_feedback", <<feedback_type, feedback>>)
        feedback_lower == Lower(feedback)
        NeverUse == <<"n", "e", "v", "e", "r", " ", "u", "s", "e">>
        AlwaysInclude == <<"a", "l", "w", "a", "y", "s", " ", "i", "n", "c", "l", "u", "d", "e">>
        AlwaysMention == <<"a", "l", "w", "a", "y", "s", " ", "m", "e", "n", "t", "i", "o", "n">>
        DontUse == <<"d", "o", "n", "'", "t", " ", "u", "s", "e">>
        DoNotUse == <<"d", "o", " ", "n", "o", "t", " ", "u", "s", "e">>
        UserFeedback == <<"U", "s", "e", "r", " ", "f", "e", "e", "d", "b", "a", "c", "k">>
        w2 == IF Contains(feedback_lower, NeverUse)
              THEN add_banned_word(w1, StripQuotes(SecondPart(feedback_lower, NeverUse)),
                                   UserFeedback)
              ELSE IF Contains(feedback_lower, AlwaysInclude)
                      \/ Contains(feedback_lower, AlwaysMention)
              THEN add_required_element(
                       w1,
                       StripQuotes(SecondPart(
                           Replaced(feedback_lower, AlwaysMention, AlwaysInclude, 1),
                           AlwaysInclude)),
                       UserFeedback)
              ELSE IF Contains(feedback_lower, DontUse) \/ Contains(feedback_lower, DoNotUse)
              THEN add_formatting_rule(w1, feedback)
              ELSE w1
    IN _save_all(w2)

(***************************************************************************)
(* MemoryDatabase (memory_database.py): one JSON file per memory, in one   *)
(* directory per category.  A directory is a function from the names of    *)
(* its files to their contents.                                            *)
(***************************************************************************)
\* __init__: the four directories exist; a new database holds no file
NewDatabase ==
    [directory \in {"insights", "learnings", "patterns", "context_history"} |-> <<>>]

\* store_memory at the instant clock = [second, micro].  strftime("%Y%m%d_%H%M%S")
\* keeps the clock down to its second, isoformat() keeps all of it.
\* open(file_path, 'w') replaces a file of the same name.  The git commit
\* leaves the directories as they are.
store_memory(d, clock, category, content, tags) ==
    LET timestamp == clock
        memory_id == clock.second
        memory_data == [id |-> memory_id, timestamp |-> timestamp,
                        tags |-> tags, content |-> content]
        target_dir == IF category \in DOMAIN NewDatabase THEN category ELSE "insights"
    IN [db |-> [d EXCEPT ![target_dir] = (memory_id :> memory_data) @@ @],
        ret |-> [dir |-> target_dir, name |-> memory_id]]

\* retrieve_memories; category "" and tags <<>> are the arguments left out
\* (both are falsy)
retrieve_memories(d, category, tags, limit) ==
    LET Sorted(directory) ==
            LET names == DOMAIN d[directory]
                Rank(n) == 1 + Cardinality({m \in names : m > n})
            IN [k \in 1..Cardinality(names) |->
                    d[directory][CHOOSE n \in names : Rank(n) = k]]
        Tagged(stored) ==
            tags # <<>> => \E i \in 1..Len(tags) : \E j \in 1..Len(stored.tags) :
                               tags[i] = stored.tags[j]
        Read(directory) ==
            IF directory \in DOMAIN d
            THEN SelectSeq(<<>> \o Sorted(directory), Tagged)
            ELSE <<>>
        memories == IF category # ""
                    THEN Read(category)
                    ELSE Read("insights") \o Read("learnings")
                         \o Read("patterns") \o Read("context_history")
        returned == IF limit < 1 THEN 1 ELSE limit
    IN IF Len(memories) > returned THEN SubSeq(memories, 1, returned) ELSE memories

(***************************************************************************)
(* State after construction, and the calls a client makes                  *)
(***************************************************************************)
Init ==
    /\ memory = NewMemory
    /\ files = NewMemory
    /\ now = 0
    /\ last_word_count = Unset
    /\ gen = GenIdle
    /\ provider_calls = 0
    /\ usage = NewUsage
    /\ lastCall = [op |-> "__init__", arg |-> <<>>, ret |-> None]
    /\ calls = 0
    /\ other_memory = NewMemory /\ db = NewDatabase

\* A Store call made by the (single-threaded) client: it returns world w2
\* and result ret.  The clock is advanced by the specification.
Did(w2, op, arg, ret) ==
    /\ gen.pc # "attempt"
    /\ memory' = w2.mem
    /\ files' = w2.disk
    /\ lastCall' = [op |-> op, arg |-> arg, ret |-> ret]
    /\ calls' = calls + 1
    /\ UNCHANGED <<last_word_count, gen, provider_calls, usage, other_memory, db>>

\* the client makes one more call, at most max in all, one clock tick later
ClientStep(max) == calls < max /\ now' = now + 1

NoReason == <<>>      \* app.py passes reason ""
Topic == <<"t">>

AddBannedWord(word) ==
    Did(add_banned_word(World, word, NoReason), "add_banned_word", word, None)
RemoveBannedWord(word) ==
    Did(remove_banned_word(World, word), "remove_banned_word", word, None)
AddRequiredElement(element) ==
    Did(add_required_element(World, element, NoReason), "add_required_element", element, None)
RemoveRequiredElement(element) ==
    Did(remove_required_element(World, element), "remove_required_element", element, None)
AddStyleNote(note) ==
    Did(add_style_note(World, note), "add_style_note", note, None)
RemoveStyleNote(note) ==
    Did(remove_style_note(World, note), "remove_style_note", note, None)
AddFormattingRule(rule) ==
    Did(add_formatting_rule(World, rule), "add_formatting_rule", rule, None)
RemoveFormattingRule(rule) ==
    Did(remove_formatting_rule(World, rule), "remove_formatting_rule", rule, None)
AddSeoKeyword(keyword) ==
    Did(add_seo_keyword(World, keyword, NoReason), "add_seo_keyword", keyword, None)
RemoveSeoKeyword(keyword) ==
    Did(remove_seo_keyword(World, keyword), "remove_seo_keyword", keyword, None)
ValidateContent(content) ==
    Did(World, "validate_content", content, validate_content(World, content))

(***************************************************************************)
(* All five rule types: add, remove                                        *)
(***************************************************************************)
MaxRuleCalls == 3

\* two spellings that normalise to the same value
RuleInputs == {<<"a">>, <<"A", " ">>}
FormattingInputs == {<<"N", "o", " ", "d", "a", "s", "h", "e", "s">>,
                     <<"n", "o", " ", "d", "a", "s", "h", "e", "s", " ">>}

NextRules ==
    \/ ClientStep(MaxRuleCalls) /\ \E word \in RuleInputs : AddBannedWord(word)
    \/ ClientStep(MaxRuleCalls) /\ \E word \in RuleInputs : RemoveBannedWord(word)
    \/ ClientStep(MaxRuleCalls) /\ \E element \in RuleInputs : AddRequiredElement(element)
    \/ ClientStep(MaxRuleCalls) /\ \E element \in RuleInputs : RemoveRequiredElement(element)
    \/ ClientStep(MaxRuleCalls) /\ \E note \in RuleInputs : AddStyleNote(note)
    \/ ClientStep(MaxRuleCalls) /\ \E note \in RuleInputs : RemoveStyleNote(note)
    \/ ClientStep(MaxRuleCalls) /\ \E rule \in FormattingInputs : AddFormattingRule(rule)
    \/ ClientStep(MaxRuleCalls) /\ \E rule \in FormattingInputs : RemoveFormattingRule(rule)
    \/ ClientStep(MaxRuleCalls) /\ \E keyword \in RuleInputs : AddSeoKeyword(keyword)
    \/ ClientStep(MaxRuleCalls) /\ \E keyword \in RuleInputs : RemoveSeoKeyword(keyword)

SpecRules == Init /\ [][NextRules]_vars

SaveGeneratedBlog(title, content, topic) ==
    LET s == save_generated_blog(World, title, content, topic, "draft")
    IN Did(s.world, "save_generated_blog", <<title, content, topic>>, s.ret)
UpdateBlogContent(blog_id, title, content) ==
    Did(update_blog_content(World, blog_id, title, content), "update_blog_content",
        <<blog_id, title, content>>, None)
IsDuplicate(content, threshold) ==
    Did(World, "is_duplicate", <<content, threshold>>, is_duplicate(World, content, threshold))

BlogIds == {memory.generated_blogs[i].id : i \in 1..Len(memory.generated_blogs)}

(***************************************************************************)
(* Banned words and validation, with blogs saved and edited in between     *)
(***************************************************************************)
MaxBannedCalls == 4

\* raw inputs: two spellings of one word, and a word that is only whitespace
BannedInputs == {<<"a">>, <<" ", "A">>, <<" ">>}
ValidateInputs == {<<"B", "a", "d">>, <<"x">>, <<" ">>}

NextBanned ==
    \/ ClientStep(MaxBannedCalls) /\ \E word \in BannedInputs : AddBannedWord(word)
    \/ ClientStep(MaxBannedCalls) /\ \E word \in BannedInputs : RemoveBannedWord(word)
    \/ ClientStep(MaxBannedCalls) /\ \E content \in ValidateInputs : ValidateContent(content)
    \/ ClientStep(MaxBannedCalls) /\ SaveGeneratedBlog(<<"T">>, <<"x">>, Topic)
    \/ ClientStep(MaxBannedCalls) /\ \E blog_id \in BlogIds : UpdateBlogContent(blog_id, <<"T">>, <<>>)

SpecBanned == Init /\ [][NextBanned]_vars

(***************************************************************************)
(* The word-count review as a function of its input                        *)
(***************************************************************************)
ReviewMargin == 30

\* n words "x" separated by single spaces
Filler(n) == [i \in 1..(2 * n - 1) |-> IF i % 2 = 1 THEN "x" ELSE " "]

\* n words "x", each followed by a space and a newline
Spaced(n) == [i \in 1..(3 * n) |-> IF i % 3 = 1 THEN "x" ELSE IF i % 3 = 2 THEN " " ELSE "\n"]

ReviewCounts == (MIN_WORDS - ReviewMargin)..(MAX_WORDS + ReviewMargin)

InitReview ==
    /\ memory = NewMemory /\ files = NewMemory /\ now = 0
    /\ last_word_count = Unset /\ gen = GenIdle /\ provider_calls = 0
    /\ usage = NewUsage /\ calls = 0 /\ other_memory = NewMemory /\ db = NewDatabase
    /\ \E n \in ReviewCounts : \E shape \in {"filler", "spaced"} :
          lastCall = [op |-> "input", ret |-> None,
                      arg |-> [n |-> n, content |-> IF shape = "filler" THEN Filler(n)
                                                    ELSE Spaced(n)]]

ReviewBlog ==
    /\ lastCall.op = "input"
    /\ lastCall' = [op |-> "_review_blog", arg |-> lastCall.arg,
                    ret |-> _review_blog(<<"T">>, lastCall.arg.content)]
    /\ calls' = calls + 1
    /\ UNCHANGED <<memory, files, now, last_word_count, gen, provider_calls, usage, other_memory, db>>

SpecReview == InitReview /\ [][ReviewBlog]_vars

(***************************************************************************)
(* Saving blogs and looking for duplicates                                 *)
(***************************************************************************)
MaxDupCalls == 3

\* Words(<<"a","b">>) is the text "a b"
Words(cs) == [i \in 1..(2 * Len(cs) - 1) |-> IF i % 2 = 1 THEN cs[(i + 1) \div 2] ELSE " "]

Twenty == <<"a","b","c","d","e","f","g","h","i","j","k","l","m","n","o","p","q","r","s","t">>
BodyA == Words(Twenty)
\* BodyA in another case and with other whitespace
BodyAVariant == <<" ", "A", "\n", " ">> \o SubSeq(Lower(BodyA), 3, Len(BodyA)) \o <<"\n">>
\* 19 of the 20 words of BodyA and one other: overlap 0.95
BodyNineteen == Words(SubSeq(Twenty, 1, 19) \o <<"z">>)
\* 18 of the 20 and two others: overlap exactly 0.9
BodyEighteen == Words(SubSeq(Twenty, 1, 18) \o <<"y", "z">>)
\* 10 of the 20 and ten others: overlap 0.5
BodyTen == Words(SubSeq(Twenty, 1, 10) \o <<"0","1","2","3","4","5","6","7","8","9">>)

DupBodies == {BodyA, BodyAVariant, BodyNineteen, BodyEighteen, BodyTen, <<>>}
DupThresholds == {DefaultThreshold, [num |-> 1, den |-> 2]}

NextDup ==
    \/ ClientStep(MaxDupCalls) /\ \E content \in DupBodies : SaveGeneratedBlog(<<"T">>, content, Topic)
    \/ ClientStep(MaxDupCalls) /\ \E blog_id \in BlogIds : \E content \in {<<>>, BodyTen} :
                  UpdateBlogContent(blog_id, <<"T">>, content)
    \/ ClientStep(MaxDupCalls) /\ \E content \in DupBodies : \E threshold \in DupThresholds :
                  IsDuplicate(content, threshold)

SpecDup == Init /\ [][NextDup]_vars

(***************************************************************************)
(* generate() calls on a store that earlier calls have filled               *)
(***************************************************************************)
MaxGenCalls == 1
MaxAttemptsArg == 2

\* what messages.create may return: "T", a newline and a body
Response(body) == <<"T", "\n">> \o body
LowText == Response(Filler(MIN_WORDS - 1))
GoodText == Response(Filler(MIN_WORDS))
HighText == Response(Filler(MAX_WORDS + 1))
\* twelve distinct words: a copy with the title before it is similar to the body
RichText == Response(Words(SubSeq(Twenty, 2, 12)) \o <<" ">> \o Filler(MIN_WORDS - 11))
\* the word "a" among MIN_WORDS words
BannedText == Response(<<"a", " ">> \o Filler(MIN_WORDS - 1))
EmptyText == <<" ">>

Responses == {LowText, GoodText, HighText, RichText, BannedText, EmptyText}

\* The stores a generate() call may find, each built by the calls that lead
\* to it from the empty store, one clock tick apart.
Later(w) == [w EXCEPT !.now = @ + 1]
FreshWorld == [mem |-> NewMemory, disk |-> NewMemory, now |-> 0]
\* add_banned_word("a")
BannedWorld == Later(add_banned_word(FreshWorld, <<"a">>, NoReason))
\* save_generated_blog of the body of RichText
SavedBlog == save_generated_blog(FreshWorld, <<"T">>, ParseContent(RichText), Topic, "draft")
BlogWorld == Later(SavedBlog.world)
\* the same, and the blog edited to no text (app.py: update_blog_content)
EditedWorld == Later(update_blog_content(BlogWorld, SavedBlog.ret, <<"T">>, <<>>))

PriorWorlds == {FreshWorld, BannedWorld, BlogWorld, EditedWorld}

InitGen ==
    /\ \E w \in PriorWorlds : memory = w.mem /\ files = w.disk /\ now = w.now
    /\ last_word_count = Unset
    /\ gen = GenIdle
    /\ provider_calls = 0
    /\ usage = NewUsage
    /\ lastCall = [op |-> "__init__", arg |-> <<>>, ret |-> None]
    /\ calls = 0
    /\ other_memory = NewMemory /\ db = NewDatabase

\* The attempts of one call fall into the clock tick in which it started.
NextGen ==
    \/ ClientStep(MaxGenCalls) /\ \E save \in BOOLEAN : \E max_attempts \in 1..MaxAttemptsArg :
           GenerateStart(Topic, save, max_attempts)
    \/ UNCHANGED now /\ \E generated \in Responses : GenerateAttempt(generated)
    \/ UNCHANGED now /\ GenerateProviderError

SpecGen == InitGen /\ [][NextGen]_vars

(***************************************************************************)
(* generate() calls against the usage limit                                *)
(***************************************************************************)
MaxUsageCalls == 3
MaxWindows == 1

\* a draft of one word: the call returns it with a word-count issue
ShortText == <<"T", "\n", "x">>

\* the usage file after k generate calls, one clock tick apart
RECURSIVE Recorded(_)
Recorded(k) == IF k = 0 THEN NewUsage ELSE record_usage(Recorded(k - 1), Topic, k)

UsedAtStart == {0} \cup ((MAX_POSTS_PER_WINDOW - 2)..MAX_POSTS_PER_WINDOW)

InitUsage ==
    /\ memory = NewMemory /\ files = NewMemory
    /\ \E k \in UsedAtStart : usage = Recorded(k) /\ now = k + 1
    /\ last_word_count = Unset
    /\ gen = GenIdle
    /\ provider_calls = 0
    /\ lastCall = [op |-> "__init__", arg |-> <<>>, ret |-> None]
    /\ calls = 0
    /\ other_memory = NewMemory /\ db = NewDatabase

\* "python usage_limiter.py reset"
AdminReset ==
    /\ gen.pc # "attempt"
    /\ usage' = admin_reset(usage, now)
    /\ lastCall' = [op |-> "admin_reset", arg |-> <<>>, ret |-> None]
    /\ calls' = calls + 1
    /\ UNCHANGED <<memory, files, last_word_count, gen, provider_calls, other_memory, db>>

\* twelve hours go by between two calls
WindowPasses ==
    /\ gen.pc # "attempt"
    /\ now < MaxWindows * WINDOW_HOURS * SecondsPerHour
    /\ now' = now + WINDOW_HOURS * SecondsPerHour
    /\ UNCHANGED <<memory, files, last_word_count, gen, provider_calls, usage, lastCall, calls, other_memory, db>>

NextUsage ==
    \/ ClientStep(MaxUsageCalls) /\ \E max_attempts \in 1..2 :
           GenerateStart(Topic, TRUE, max_attempts)
    \/ UNCHANGED now /\ GenerateAttempt(ShortText)
    \/ UNCHANGED now /\ GenerateProviderError
    \/ ClientStep(MaxUsageCalls) /\ AdminReset
    \/ WindowPasses

SpecUsage == InitUsage /\ [][NextUsage]_vars

(***************************************************************************)
(* tweak_blog() calls on blogs shorter than the 200 characters from which  *)
(* difflib sets frequent characters aside                                  *)
(***************************************************************************)
MaxTweakCalls == 1

\* the blogs the client edits: the word in three cases, the word in the
\* title only, the word mistyped
SchoolTies == <<"S", "C", "H", "O", "O", "L", " ", "T", "I", "E", "S">>
ColourGuide == <<"C", "o", "l", "o", "u", "r", " ", "G", "u", "i", "d", "e">>
ColourBody ==
    <<"O", "u", "r", " ", "c", "o", "l", "o", "u", "r", " ", "r", "a", "n", "g", "e", " ",
      "i", "s", " ", "w", "i", "d", "e", ".", " ", "C", "o", "l", "o", "u", "r", " ", "m",
      "a", "t", "t", "e", "r", "s", ".", " ", "C", "O", "L", "O", "U", "R", "!">>
TiesBody ==
    <<"O", "u", "r", " ", "t", "i", "e", "s", " ", "a", "r", "e", " ", "g", "r", "e", "a",
      "t", ".">>
TypoBody == <<"F", "i", "x", " ", "c", "O", "l", "o", "u", "r", "!">>
Blogs == {[title |-> SchoolTies, content |-> ColourBody],
          [title |-> ColourGuide, content |-> TiesBody],
          [title |-> SchoolTies, content |-> TypoBody]}

\* the instructions the client gives
ReplaceColour ==
    <<"r", "e", "p", "l", "a", "c", "e", " ", "c", "o", "l", "o", "u", "r", " ", "w", "i",
      "t", "h", " ", "c", "o", "l", "o", "r">>
ColourToColor == <<"c", "o", "l", "o", "u", "r", " ", "t", "o", " ", "c", "o", "l", "o", "r">>
ColourArrow == <<"c", "o", "l", "o", "u", "r", " ", "-", ">", " ", "c", "o", "l", "o", "r">>
Capitalise ==
    <<"r", "e", "p", "l", "a", "c", "e", " ", "c", "o", "l", "o", "u", "r", " ", "w", "i",
      "t", "h", " ", "C", "o", "l", "o", "u", "r">>
UseInstead ==
    <<"u", "s", "e", " ", "c", "o", "l", "o", "r", " ", "i", "n", "s", "t", "e", "a", "d",
      " ", "o", "f", " ", "c", "o", "l", "o", "u", "r">>
ChangeTheColour ==
    <<"c", "h", "a", "n", "g", "e", " ", "t", "h", "e", " ", "c", "o", "l", "o", "u", "r",
      " ", "t", "o", " ", "b", "l", "u", "e">>
WarmerEnding ==
    <<"m", "a", "k", "e", " ", "t", "h", "e", " ", "e", "n", "d", "i", "n", "g", " ", "w",
      "a", "r", "m", "e", "r">>
RedoEnding ==
    <<"R", "e", "d", "o", " ", "t", "h", "e", " ", "l", "a", "s", "t", " ", "p", "a", "r",
      "a", "g", "r", "a", "p", "h">>
Instructions == {ReplaceColour, ColourToColor, ColourArrow, Capitalise, UseInstead,
                 ChangeTheColour, WarmerEnding, RedoEnding}

\* what the provider adds to the end of the body
OneMore == <<"!">>
TwoMore == <<"!", "!">>
TenMore == <<" ", "A", "n", "d", " ", "m", "o", "r", "e", ".">>
Additions == {<<>>, OneMore, TwoMore, TenMore}
\* a blog the provider writes anew, with the labels it may put before the parts
Rewritten ==
    <<"#", " ", "T", "I", "T", "L", "E", ":", " ", "N", "e", "w", "\n", "C", "O", "N", "T",
      "E", "N", "T", ":", " ", "A", "l", "l", " ", "n", "e", "w", " ", "t", "e", "x", "t",
      " ", "h", "e", "r", "e", ".">>

\* "Return ONLY the modified blog. Title in CAPS on first line, then content."
Modified(title, content, addition) == Upper(title) \o <<"\n", "\n">> \o content \o addition
Modifications(title, content) ==
    {Modified(title, content, addition) : addition \in Additions} \cup {Rewritten}
ErrorMessages == {"", "Connection error."}

\* a store with a banned word and the first blog in it
TweakWorld == Later(save_generated_blog(BannedWorld, SchoolTies, ColourBody, Topic, "draft").world)

InitTweak ==
    /\ \E w \in {FreshWorld, TweakWorld} : memory = w.mem /\ files = w.disk /\ now = w.now
    /\ last_word_count = Unset
    /\ gen = GenIdle
    /\ provider_calls = 0
    /\ usage = NewUsage
    /\ lastCall = [op |-> "__init__", arg |-> <<>>, ret |-> None]
    /\ calls = 0
    /\ other_memory = NewMemory /\ db = NewDatabase

NotCalled == [raises |-> FALSE, text |-> <<>>, message |-> "not called"]

\* a tweak_blog() that saves the edit it returns, to compare with
TweakBlogSaving(title, content, tweak_instruction, outcome) ==
    LET r == tweak_blog(title, content, tweak_instruction, outcome)
        s == save_generated_blog(World, r.ret.title, r.ret.content, Topic, "draft").world
    IN /\ gen.pc # "attempt"
       /\ provider_calls' = r.provider_calls
       /\ lastCall' = [op |-> "tweak_blog", ret |-> r.ret,
                       arg |-> [title |-> title, content |-> content,
                                tweak_instruction |-> tweak_instruction],
                       provider |-> IF r.provider_calls = 0 THEN NotCalled ELSE outcome]
       /\ calls' = calls + 1
       /\ memory' = IF r.ret.success THEN s.mem ELSE memory
       /\ files' = IF r.ret.success THEN s.disk ELSE files
       /\ UNCHANGED <<last_word_count, gen, usage, other_memory, db>>

\* a tweak_blog() call; outcome is what messages.create does if it is called
TweakBlog(title, content, tweak_instruction, outcome) ==
    \E r \in {tweak_blog(title, content, tweak_instruction, outcome)} :
       /\ gen.pc # "attempt"
       /\ provider_calls' = r.provider_calls
       /\ lastCall' = [op |-> "tweak_blog", ret |-> r.ret,
                       arg |-> [title |-> title, content |-> content,
                                tweak_instruction |-> tweak_instruction],
                       provider |-> IF r.provider_calls = 0 THEN NotCalled ELSE outcome]
       /\ calls' = calls + 1
       /\ UNCHANGED <<memory, files, last_word_count, gen, usage, other_memory, db>>

NextTweak ==
    \/ ClientStep(MaxTweakCalls) /\ \E blog \in Blogs : \E tweak_instruction \in Instructions :
           \E text \in Modifications(blog.title, blog.content) :
               TweakBlog(blog.title, blog.content, tweak_instruction, Returns(text))
    \/ ClientStep(MaxTweakCalls) /\ \E blog \in Blogs : \E tweak_instruction \in Instructions :
           \E message \in ErrorMessages :
               TweakBlog(blog.title, blog.content, tweak_instruction, Raises(message))

SpecTweak == InitTweak /\ [][NextTweak]_vars

(***************************************************************************)
(* Every mutating call of the store, made by one process                   *)
(***************************************************************************)
MaxPersistCalls == 3

AddCustomRule(rule_type, rule_value) ==
    Did(add_custom_rule(World, rule_type, rule_value, NoReason), "add_custom_rule",
        <<rule_type, rule_value>>, None)
IncrementSeoKeywordUsage(keyword) ==
    Did(increment_seo_keyword_usage(World, keyword), "increment_seo_keyword_usage",
        keyword, None)
UpdateBlogStatus(blog_id, status) ==
    Did(update_blog_status(World, blog_id, status), "update_blog_status",
        <<blog_id, status>>, None)
LearnFromFeedback(feedback_type, feedback) ==
    Did(learn_from_feedback(World, feedback_type, feedback), "learn_from_feedback",
        <<feedback_type, feedback>>, None)

\* feedback that bans a word, asks for an element, gives a formatting rule,
\* and does none of these
FeedbackNever == <<"N", "e", "v", "e", "r", " ", "u", "s", "e", " ", "'", "a", "'">>
FeedbackAlways == <<"a", "l", "w", "a", "y", "s", " ", "m", "e", "n", "t", "i", "o", "n", " ", "a">>
FeedbackDont == <<"D", "o", "n", "'", "t", " ", "u", "s", "e", " ", "a">>
FeedbackOther == <<"o", "k">>
Feedbacks == {FeedbackNever, FeedbackAlways, FeedbackDont, FeedbackOther}

MutatingCalls ==
    {"add_banned_word", "remove_banned_word", "add_required_element",
     "remove_required_element", "add_style_note", "remove_style_note",
     "add_formatting_rule", "remove_formatting_rule", "add_custom_rule",
     "add_seo_keyword", "remove_seo_keyword", "increment_seo_keyword_usage",
     "save_generated_blog", "update_blog_status", "update_blog_content",
     "learn_from_feedback"}

NextPersist ==
    \/ ClientStep(MaxPersistCalls) /\ AddBannedWord(<<"a">>)
    \/ ClientStep(MaxPersistCalls) /\ RemoveBannedWord(<<"a">>)
    \/ ClientStep(MaxPersistCalls) /\ AddRequiredElement(<<"a">>)
    \/ ClientStep(MaxPersistCalls) /\ RemoveRequiredElement(<<"a">>)
    \/ ClientStep(MaxPersistCalls) /\ AddStyleNote(<<"a">>)
    \/ ClientStep(MaxPersistCalls) /\ RemoveStyleNote(<<"a">>)
    \/ ClientStep(MaxPersistCalls) /\ AddFormattingRule(<<"a">>)
    \/ ClientStep(MaxPersistCalls) /\ RemoveFormattingRule(<<"a">>)
    \/ ClientStep(MaxPersistCalls) /\ AddCustomRule(<<"t">>, <<"a">>)
    \/ ClientStep(MaxPersistCalls) /\ AddSeoKeyword(<<"a">>)
    \/ ClientStep(MaxPersistCalls) /\ RemoveSeoKeyword(<<"a">>)
    \/ ClientStep(MaxPersistCalls) /\ IncrementSeoKeywordUsage(<<"A">>)
    \/ ClientStep(MaxPersistCalls) /\ SaveGeneratedBlog(<<"T">>, <<"x">>, Topic)
    \/ ClientStep(MaxPersistCalls) /\ \E blog_id \in BlogIds \cup {NoBlogId} :
           UpdateBlogStatus(blog_id, "approved")
    \/ ClientStep(MaxPersistCalls) /\ \E blog_id \in BlogIds \cup {NoBlogId} :
           UpdateBlogContent(blog_id, <<"T">>, <<"y">>)
    \/ ClientStep(MaxPersistCalls) /\ \E feedback \in Feedbacks :
           LearnFromFeedback(<<"s">>, feedback)

SpecPersist == Init /\ [][NextPersist]_vars

(***************************************************************************)
(* Two processes, each with its own instance, on the same four files       *)
(***************************************************************************)
MaxTwoCalls == 3

\* what a call of the second process reads and writes
PeerWorld == [mem |-> other_memory, disk |-> files, now |-> now]

\* a Store call made by the second process: it returns world w2 and result ret
PeerDid(w2, op, arg, ret) ==
    /\ gen.pc # "attempt"
    /\ other_memory' = w2.mem
    /\ files' = w2.disk
    /\ lastCall' = [op |-> op, arg |-> arg, ret |-> ret, process |-> "P2"]
    /\ calls' = calls + 1
    /\ UNCHANGED <<memory, last_word_count, gen, provider_calls, usage, db>>

PeerAddBannedWord(word) ==
    PeerDid(add_banned_word(PeerWorld, word, NoReason), "add_banned_word", word, None)
PeerRemoveBannedWord(word) ==
    PeerDid(remove_banned_word(PeerWorld, word), "remove_banned_word", word, None)
PeerAddSeoKeyword(keyword) ==
    PeerDid(add_seo_keyword(PeerWorld, keyword, NoReason), "add_seo_keyword", keyword, None)
PeerSaveGeneratedBlog(title, content, topic) ==
    LET s == save_generated_blog(PeerWorld, title, content, topic, "draft")
    IN PeerDid(s.world, "save_generated_blog", <<title, content, topic>>, s.ret)

\* both processes have loaded the same files: none yet, or those with a banned word
InitTwo ==
    /\ \E w \in {FreshWorld, BannedWorld} :
           memory = w.mem /\ other_memory = w.mem /\ files = w.disk /\ now = w.now
    /\ db = NewDatabase
    /\ last_word_count = Unset
    /\ gen = GenIdle
    /\ provider_calls = 0
    /\ usage = NewUsage
    /\ lastCall = [op |-> "__init__", arg |-> <<>>, ret |-> None]
    /\ calls = 0

NextTwo ==
    \/ ClientStep(MaxTwoCalls) /\ AddBannedWord(<<"b">>)
    \/ ClientStep(MaxTwoCalls) /\ RemoveBannedWord(<<"a">>)
    \/ ClientStep(MaxTwoCalls) /\ AddSeoKeyword(<<"k">>)
    \/ ClientStep(MaxTwoCalls) /\ SaveGeneratedBlog(<<"T">>, <<"x">>, Topic)
    \/ ClientStep(MaxTwoCalls) /\ PeerAddBannedWord(<<"b">>)
    \/ ClientStep(MaxTwoCalls) /\ PeerRemoveBannedWord(<<"a">>)
    \/ ClientStep(MaxTwoCalls) /\ PeerAddSeoKeyword(<<"k">>)
    \/ ClientStep(MaxTwoCalls) /\ PeerSaveGeneratedBlog(<<"T">>, <<"y">>, Topic)

SpecTwo == InitTwo /\ [][NextTwo]_vars

(***************************************************************************)
(* Blogs saved, given a status and listed.  The clock counts seconds, and  *)
(* a call may come in the same second as the call before it.               *)
(***************************************************************************)
MaxBlogCalls == 3

GetApprovedBlogs ==
    Did(World, "get_approved_blogs", <<>>, get_approved_blogs(World))

\* one more call, in the same second or in the next
BlogStep == calls < MaxBlogCalls /\ now' \in {now, now + 1}

BodyX == <<"x">>
BodyY == <<"y", " ", "z">>
Statuses == {"draft", "approved", "posted"}

\* two drafts saved in the same second
DraftsWorld ==
    Later(save_generated_blog(
              save_generated_blog(FreshWorld, <<"T">>, BodyX, Topic, "draft").world,
              <<"U">>, BodyY, Topic, "draft").world)

InitBlogs ==
    /\ \E w \in {FreshWorld, DraftsWorld} : memory = w.mem /\ files = w.disk /\ now = w.now
    /\ last_word_count = Unset
    /\ gen = GenIdle
    /\ provider_calls = 0
    /\ usage = NewUsage
    /\ lastCall = [op |-> "__init__", arg |-> <<>>, ret |-> None]
    /\ calls = 0
    /\ other_memory = NewMemory /\ db = NewDatabase

NextBlogs ==
    \/ BlogStep /\ \E content \in {BodyX, BodyY} : SaveGeneratedBlog(<<"T">>, content, Topic)
    \/ BlogStep /\ \E blog_id \in BlogIds : \E status \in Statuses :
           UpdateBlogStatus(blog_id, status)
    \/ BlogStep /\ GetApprovedBlogs

SpecBlogs == InitBlogs /\ [][NextBlogs]_vars

(***************************************************************************)
(* Several generate() calls on one generator and one store                 *)
(***************************************************************************)
MaxRetryCalls == 3

NextRetry ==
    \/ ClientStep(MaxRetryCalls) /\ \E save \in BOOLEAN : \E max_attempts \in 1..2 :
           GenerateStart(Topic, save, max_attempts)
    \/ UNCHANGED now /\ \E generated \in {LowText, GoodText, HighText} :
           GenerateAttempt(generated)
    \/ UNCHANGED now /\ GenerateProviderError

SpecRetry == Init /\ [][NextRetry]_vars

(***************************************************************************)
(* A process that stops while it saves a blog, and the one started next    *)
(***************************************************************************)
MaxCrashCalls == 3

\* save_generated_blog in a process that stops in _save_all, followed by
\* PersistentMemory() in the next process, which loads the four files
SaveGeneratedBlogStopped(title, content, topic, written, torn) ==
    LET s == save_generated_blog(World, title, content, topic, "draft").world
        stopped == _save_all_stopped([s EXCEPT !.disk = files], written, torn)
    IN /\ gen.pc # "attempt"
       /\ files' = stopped.disk
       /\ memory' = stopped.disk
       /\ lastCall' = [op |-> "save_generated_blog", ret |-> None,
                       arg |-> <<title, content, topic>>,
                       stopped |-> [written |-> written, torn |-> torn]]
       /\ calls' = calls + 1
       /\ UNCHANGED <<last_word_count, gen, provider_calls, usage, other_memory, db>>

NextCrash ==
    \/ ClientStep(MaxCrashCalls) /\ \E content \in {BodyX, BodyY} :
           SaveGeneratedBlog(<<"T">>, content, Topic)
    \/ ClientStep(MaxCrashCalls) /\ \E content \in {BodyX, BodyY} :
           \E written \in 0..3 : \E torn \in BOOLEAN :
               SaveGeneratedBlogStopped(<<"T">>, content, Topic, written, torn)
    \/ ClientStep(MaxCrashCalls) /\ AddBannedWord(<<"a">>)

SpecCrash == Init /\ [][NextCrash]_vars

(***************************************************************************)
(* Memories stored in and retrieved from a MemoryDatabase                  *)
(***************************************************************************)
MaxDbCalls == 3

StoreMemory(category, content, tags) ==
    \E s \in {store_memory(db, [second |-> now, micro |-> calls], category, content, tags)} :
       /\ db' = s.db
       /\ lastCall' = [op |-> "store_memory", arg |-> <<category, content, tags>>,
                       ret |-> s.ret]
       /\ calls' = calls + 1
       /\ UNCHANGED <<memory, files, last_word_count, gen, provider_calls, usage,
                      other_memory>>

RetrieveMemories(category, tags, limit) ==
    /\ lastCall' = [op |-> "retrieve_memories", arg |-> <<category, tags, limit>>,
                    ret |-> retrieve_memories(db, category, tags, limit)]
    /\ calls' = calls + 1
    /\ UNCHANGED <<memory, files, last_word_count, gen, provider_calls, usage,
                   other_memory, db>>

\* a call falls in the second of the call before it, or in a later one
NextDb ==
    \/ calls < MaxDbCalls /\ now' \in {now, now + 1}
       /\ \E category \in {"insights", "learnings"} : \E content \in {"c1", "c2"} :
          \E tags \in {<<"test">>, <<"test", "system_check">>} :
              StoreMemory(category, content, tags)
    \/ calls < MaxDbCalls /\ now' \in {now, now + 1}
       /\ \E category \in {"", "insights"} : \E limit \in {1, 5} :
              RetrieveMemories(category, <<"test">>, limit)

SpecDb == Init /\ [][NextDb]_vars

(***************************************************************************)
(* Properties of the rule store                                            *)
(***************************************************************************)
Normalized(value) == Strip(Lower(value))

\* the five rule lists, the field that holds the value, and the calls on them
RuleTypes ==
    {[key |-> "banned_words", field |-> "word", remove |-> "remove_banned_word"],
     [key |-> "required_elements", field |-> "element", remove |-> "remove_required_element"],
     [key |-> "style_notes", field |-> "note", remove |-> "remove_style_note"],
     [key |-> "formatting_rules", field |-> "rule", remove |-> "remove_formatting_rule"],
     [key |-> "seo_keywords", field |-> "keyword", remove |-> "remove_seo_keyword"]}

\* the values the get-active lookup of a rule type returns
ActiveValues(w, t) ==
    CASE t.key = "banned_words" -> get_banned_words(w)
      [] t.key = "required_elements" -> get_required_elements(w)
      [] t.key = "style_notes" -> get_style_notes(w)
      [] t.key = "formatting_rules" -> get_formatting_rules(w)
      [] t.key = "seo_keywords" ->
            [i \in 1..Len(get_seo_keywords(w)) |-> get_seo_keywords(w)[i].keyword]

WorldAfter == [mem |-> memory', disk |-> files', now |-> now']

ActiveBannedCount(mem, word_lower) ==
    Cardinality({i \in 1..Len(mem.preferences.banned_words) :
                    /\ mem.preferences.banned_words[i].word = word_lower
                    /\ mem.preferences.banned_words[i].active})

\* C1: calling add_banned_word(w) twice in a row (same value after lowercasing
\* and trimming) leaves exactly one active rule for w, and get_banned_words()
\* is as long after the second call as after the first.
C1_TwiceLeavesOneActive ==
    [][(/\ lastCall.op = "add_banned_word"
        /\ lastCall'.op = "add_banned_word"
        /\ calls' = calls + 1
        /\ Normalized(lastCall'.arg) = Normalized(lastCall.arg))
       => /\ ActiveBannedCount(memory', Normalized(lastCall'.arg)) = 1
          /\ Len(get_banned_words(WorldAfter)) = Len(get_banned_words(World))]_vars

\* C2: for every rule type there is at most one active rule per normalized value.
C2_OneActivePerValue ==
    \A t \in RuleTypes :
        LET list == PrefList(World, t.key)
        IN \A i, j \in 1..Len(list) :
              (i # j /\ list[i].active /\ list[j].active)
              => Normalized(list[i][t.field]) # Normalized(list[j][t.field])

\* C3: removing a rule is a soft delete: no call removes or rewrites a rule
\* record (list lengths never decrease); a remove call sets active = false and
\* removed_at on every record that matches, and the get-active lookup no longer
\* returns the removed value.
C3_SoftDelete ==
    [][\A t \in RuleTypes :
          LET old == PrefList(World, t.key)
              new == PrefList(WorldAfter, t.key)
              active == ActiveValues(WorldAfter, t)
          IN /\ Len(new) >= Len(old)
             /\ \A i \in 1..Len(old) :
                   /\ new[i][t.field] = old[i][t.field]
                   /\ new[i].added_at = old[i].added_at
             /\ (calls' = calls + 1 /\ lastCall'.op = t.remove)
                => /\ \A i \in 1..Len(new) :
                         Normalized(new[i][t.field]) = Normalized(lastCall'.arg)
                         => ~new[i].active /\ new[i].removed_at = now
                   /\ \A i \in 1..Len(active) :
                         Normalized(active[i]) # Normalized(lastCall'.arg)]_vars

\* C3 witness: one remove_required_element call has deactivated two records
C3_Witness ==
    /\ lastCall.op = "remove_required_element"
    /\ Len(memory.preferences.required_elements) = 2
    /\ \A i \in 1..2 : /\ ~memory.preferences.required_elements[i].active
                       /\ memory.preferences.required_elements[i].removed_at # NoTime
    /\ get_required_elements(World) = <<>>

\* C4: validate_content(body) returns valid = false with an issue naming w
\* whenever an active banned word w occurs in the lowercased body, and an
\* inactive banned word never produces an issue.
C4_ValidationCatchesBanned ==
    lastCall.op = "validate_content" =>
        LET body == lastCall.arg
            ret == lastCall.ret
            list == memory.preferences.banned_words
            named(word) == /\ ret.type = "validation"
                           /\ \E k \in 1..Len(ret.issues) :
                                 /\ ret.issues[k].kind = "banned_word"
                                 /\ ret.issues[k].word = word
        IN \A i \in 1..Len(list) :
              /\ (list[i].active /\ Contains(Lower(body), list[i].word))
                 => /\ ret.type = "validation"
                    /\ ~ret.valid
                    /\ named(list[i].word)
              /\ ~list[i].active => ~named(list[i].word)

(***************************************************************************)
(* Properties of the review and of duplicate detection                     *)
(***************************************************************************)
\* C5: the word-count review passes exactly when 550 <= word_count <= 600:
\* 549 words fail with a too-low issue, 550 and 600 pass, 601 fail with an
\* exceeded issue.
C5_WordCountBoundary ==
    lastCall.op = "_review_blog" =>
        LET n == lastCall.arg.n
            ret == lastCall.ret
        IN /\ ret.word_count = n
           /\ ret.passed <=> (550 <= n /\ n <= 600)
           /\ n < 550 => ret.issues = <<[kind |-> "word_count_too_low", word_count |-> n]>>
           /\ n > 600 => ret.issues = <<[kind |-> "word_count_exceeded", word_count |-> n]>>
           /\ n \in {550, 600} => ret.passed /\ ret.issues = <<>>
           /\ n = 549 => ~ret.passed /\ ret.issues[1].kind = "word_count_too_low"
           /\ n = 601 => ~ret.passed /\ ret.issues[1].kind = "word_count_exceeded"

\* C5 witness: a body of 601 words has been reviewed and has failed
C5_Witness ==
    /\ lastCall.op = "_review_blog"
    /\ lastCall.arg.n = 601
    /\ ~lastCall.ret.passed

\* the words of a text, in order
WordList(s) ==
    LET starts == WordStarts(s)
    IN [k \in 1..Cardinality(starts) |->
           LET i == CHOOSE i \in starts : Cardinality({j \in starts : j < i}) = k - 1
           IN SubSeq(s, i, WordEnd(s, i))]

\* x and y differ in case and whitespace only
CaseWsVariant(x, y) == WordList(Lower(x)) = WordList(Lower(y))

\* an is_duplicate(content) call follows directly on save_generated_blog of a
\* body that content is a case/whitespace variation of
DuplicateOfJustSaved ==
    /\ lastCall.op = "save_generated_blog"
    /\ lastCall'.op = "is_duplicate"
    /\ calls' = calls + 1
    /\ CaseWsVariant(lastCall'.arg[1], lastCall.arg[2])

\* C6 (as claimed): after save_generated_blog stores item A, is_duplicate with
\* A's body in any case/whitespace variation returns type exact with A's id.
C6_ExactCarriesOwnId ==
    [][DuplicateOfJustSaved
       => /\ lastCall'.ret.type = "exact"
          /\ lastCall'.ret.blog_id = lastCall.ret]_vars

\* C6 (amended): ... returns type exact with the id of the earliest hash-index
\* entry that has A's content hash; that is A's id when no earlier entry has it.
C6_ExactCarriesFirstId ==
    [][DuplicateOfJustSaved
       => LET index == memory.content_hashes
              a == Len(index)
              same == {i \in 1..a : index[i].hash = index[a].hash}
              first == CHOOSE i \in same : \A j \in same : i <= j
          IN /\ index[a].blog_id = lastCall.ret
             /\ lastCall'.ret.type = "exact"
             /\ lastCall'.ret.blog_id = index[first].blog_id
             /\ same = {a} => lastCall'.ret.blog_id = lastCall.ret]_vars

\* C6 witness: BodyA is stored last and is_duplicate of its variant is exact
C6_Witness ==
    /\ lastCall.op = "is_duplicate"
    /\ lastCall.arg[1] = BodyAVariant
    /\ Len(memory.generated_blogs) > 0
    /\ memory.generated_blogs[Len(memory.generated_blogs)].content = BodyA
    /\ lastCall.ret.type = "exact"
    /\ lastCall.ret.blog_id = memory.generated_blogs[Len(memory.generated_blogs)].id

\* |A \cap B| / max(|A|, |B|) > threshold, on the lowercased word sets
OverlapAbove(content, blog, threshold) ==
    LET A == WordSet(Lower(content))
        B == WordSet(Lower(blog.content))
        m == Max(Cardinality(A), Cardinality(B))
    IN m > 0 /\ Cardinality(A \cap B) * threshold.den > threshold.num * m

\* C7: when no exact hash match exists, is_duplicate flags the body as similar
\* to the first stored item whose word-set overlap strictly exceeds the
\* threshold, and a body that has words and exceeds no item gets null: at
\* threshold 0.9 a body sharing 95% of the words is flagged, one sharing 50%
\* is not.
C7_SimilarAboveThreshold ==
    lastCall.op = "is_duplicate" =>
        LET content == lastCall.arg[1]
            threshold == lastCall.arg[2]
            ret == lastCall.ret
            blogs == memory.generated_blogs
            index == memory.content_hashes
            above == {i \in 1..Len(blogs) : OverlapAbove(content, blogs[i], threshold)}
            first == CHOOSE i \in above : \A j \in above : i <= j
            only_A == Len(blogs) = 1 /\ blogs[1].content = BodyA
                      /\ threshold = DefaultThreshold
        IN (\A i \in 1..Len(index) : index[i].hash # _hash_content(content))
           => /\ above # {} => /\ ret.type = "similar"
                               /\ ret.blog_id = blogs[first].id
                               /\ ret.title = blogs[first].title
              /\ (above = {} /\ WordSet(content) # {}) => ret = None
              /\ (only_A /\ content = BodyNineteen) => ret.type = "similar"
              /\ (only_A /\ content = BodyTen) => ret = None

\* C7 witness: a body sharing 19 of 20 words is flagged at threshold 0.9
C7_Witness ==
    /\ lastCall.op = "is_duplicate"
    /\ lastCall.arg[2] = DefaultThreshold
    /\ lastCall.ret.type = "similar"
    /\ lastCall.ret.overlap = <<19, 20>>

(***************************************************************************)
(* Properties of generate()                                                *)
(***************************************************************************)
\* the generate() call has ended and its last provider call returned text
EndedWithText ==
    /\ gen.pc \in {"returned", "raised"}
    /\ gen.result.type \notin {"None", "UsageLimitExceeded"}

\* the item list and the hash index are as they were when generate() was called
StoreAsAtCall ==
    /\ memory.generated_blogs = gen.store_at_call.generated_blogs
    /\ memory.content_hashes = gen.store_at_call.content_hashes

\* C8: when every attempt fails (here: fails the word-count review, which is
\* the weakest reading of "validation fails") and the provider never errors,
\* generate returns a result after exactly max_attempts text-generation calls,
\* the returned validation is not passed and nothing is appended to the Store.
C8_RetryTerminates ==
    (EndedWithText /\ ~gen.review.passed)
    => /\ gen.pc = "returned"
       /\ gen.result.type = "result"
       /\ provider_calls = gen.max_attempts
       /\ ~gen.result.validation.valid
       /\ StoreAsAtCall

\* C9: a generate call with save enabled appends exactly one item, a draft,
\* if and only if the merged validation has no issues; when the attempt cap
\* is reached with issues remaining, the draft is returned with its issues
\* and the item list and the hash index are unchanged.
C9_SavesIffNoIssues ==
    /\ (gen.pc = "returned" /\ gen.result.type = "result" /\ gen.save)
       => LET old == gen.store_at_call.generated_blogs
              new == memory.generated_blogs
          IN IF Len(gen.result.validation.issues) = 0
             THEN /\ Len(new) = Len(old) + 1
                  /\ SubSeq(new, 1, Len(old)) = old
                  /\ new[Len(new)].status = "draft"
                  /\ new[Len(new)].id = gen.result.blog_id
                  /\ new[Len(new)].content = gen.result.content
                  /\ Len(memory.content_hashes) = Len(gen.store_at_call.content_hashes) + 1
             ELSE StoreAsAtCall /\ gen.result.blog_id = NoBlogId
    /\ (EndedWithText /\ gen.save /\ gen.attempt = gen.max_attempts
           /\ Len(gen.review.issues) > 0)
       => /\ gen.pc = "returned"
          /\ gen.result.type = "result"
          /\ gen.result.content = gen.content
          /\ Len(gen.result.validation.issues) > 0
          /\ StoreAsAtCall

\* one pass of the loop in which the provider returned a draft
DraftStep ==
    /\ gen.pc = "attempt"
    /\ provider_calls' = provider_calls + 1
    /\ gen'.result # None

\* the word count of the draft is outside [MIN_WORDS, MAX_WORDS]
DraftOutOfRange ==
    LET n == WordCount(gen'.content) IN n < MIN_WORDS \/ n > MAX_WORDS

\* validate_content flags the draft: a rule violation or a duplicate
DraftFlagged ==
    LET v == validate_content(World, gen'.generated)
    IN v.type = "validation" /\ Len(v.issues) > 0

Retried == gen'.pc = "attempt" /\ gen'.attempt = gen.attempt + 1

GenerateEnds == gen.pc = "attempt" /\ gen'.pc # "attempt"

\* C11: every generate call that the usage limit lets through records exactly
\* one unit of usage, whether the draft was accepted, returned with issues,
\* or the call ended in a provider error.
C11_RecordsOneUnit ==
    [][GenerateEnds
       => usage'.requests = Append(usage.requests, [timestamp |-> now, topic |-> gen.topic])]_vars

\* the requests of the usage file that fall into the window of time t
UsedInWindow(data, t) ==
    Cardinality({i \in 1..Len(data.requests) :
                    data.requests[i].timestamp >= _get_window_start(t)})

\* a step in which the client calls generate()
GenerateCalled == calls' = calls + 1 /\ lastCall'.op = "generate"

\* C12: when the limit is used up, generate raises UsageLimitExceeded before
\* any text-generation call, and the call leaves the Store (rules, items,
\* hash index) and the recorded usage unchanged.
C12_LimitBlocksCall ==
    [][(GenerateCalled /\ UsedInWindow(usage, now) >= MAX_POSTS_PER_WINDOW)
       => /\ gen'.pc = "raised"
          /\ gen'.result = [type |-> "UsageLimitExceeded"]
          /\ provider_calls' = 0
          /\ memory' = memory /\ files' = files
          /\ usage'.requests = usage.requests]_vars

\* C12 witness: a generate call has been refused and no provider call was made
C12_Witness ==
    /\ lastCall.op = "generate"
    /\ gen.pc = "raised"
    /\ gen.result.type = "UsageLimitExceeded"
    /\ provider_calls = 0
    /\ memory = NewMemory

\* C13: within one window the recorded usages never exceed
\* MAX_POSTS_PER_WINDOW; with MAX_POSTS_PER_WINDOW recorded, check_limit
\* answers allowed = false, remaining = 0, and with fewer it allows the call
\* and reports what is left.
C13_NeverExceedsLimit ==
    LET used == UsedInWindow(usage, now)
        lim == check_limit(usage, now)
    IN /\ used <= MAX_POSTS_PER_WINDOW
       /\ Len(usage.requests) <= MAX_POSTS_PER_WINDOW
       /\ used = MAX_POSTS_PER_WINDOW => ~lim.allowed /\ lim.remaining = 0
       /\ used < MAX_POSTS_PER_WINDOW
          => lim.allowed /\ lim.remaining = MAX_POSTS_PER_WINDOW - used

\* C13 witness: this run's generate calls have used up the limit, and the
\* next call was refused
C13_Witness ==
    /\ calls = 3
    /\ Len(usage.requests) = MAX_POSTS_PER_WINDOW
    /\ usage.requests[MAX_POSTS_PER_WINDOW].timestamp = now - 2
    /\ usage.admin_reset_at = NoTime
    /\ gen.pc = "raised"

\* C18: when messages.create raises in an attempt, generate ends at once
\* and returns None: the raising call is the last provider call of that
\* generate call, whatever max_attempts allows, and the store is as it was
\* when the call began.
C18_ProviderErrorEndsCall ==
    gen.provider_error =>
        /\ gen.pc = "returned"
        /\ gen.result = None
        /\ provider_calls = gen.attempt
        /\ memory = gen.store_at_call
        /\ files = gen.store_at_call

\* the provider raises in the first of two attempts, beside a store with a blog
C18_Witness ==
    /\ gen.provider_error
    /\ gen.attempt = 1
    /\ gen.max_attempts = 2
    /\ provider_calls = 1
    /\ gen.save
    /\ Len(memory.generated_blogs) = 1

(***************************************************************************)
(* Properties of tweak_blog()                                              *)
(***************************************************************************)
\* the last call that returned is a tweak_blog() call
Tweaked == lastCall.op = "tweak_blog"

\* The first phrasing of the list that the instruction matches, with the
\* word X to replace and the word Y to put in its place.
Phrasing(tweak_instruction) ==
    LET s == Strip(Lower(tweak_instruction))
        hits == {k \in 1..Len(patterns) : re_search(patterns[k], s).matched}
        k == FirstIndex(hits)
        groups == re_search(patterns[k], s).groups
    IN IF hits = {} THEN [matched |-> FALSE, X |-> <<>>, Y |-> <<>>]
       ELSE [matched |-> TRUE,
             X |-> IF patterns[k].swap_groups THEN groups[2] ELSE groups[1],
             Y |-> IF patterns[k].swap_groups THEN groups[1] ELSE groups[2]]

\* where X stands in text, in whatever case
Occurrences(text, X) ==
    {p \in 1..(Len(text) - Len(X) + 1) : Lower(SubSeq(text, p, p + Len(X) - 1)) = X}

\* piece is Y written as the occurrence is: in capitals for one in capitals,
\* capitalised for a capitalised one, in lower case for any other
WrittenLike(occurrence, piece, Y) ==
    /\ isupper(occurrence) => piece = Upper(Y)
    /\ ~isupper(occurrence) /\ istitle(occurrence) => piece = str_title(Y)
    /\ ~isupper(occurrence) /\ ~istitle(occurrence) => piece = Lower(Y)

\* result is text with every occurrence of X replaced by Y written like it,
\* and nothing else changed (the occurrences of X do not overlap)
ReplacedAll(text, X, Y, result) ==
    LET occ == Occurrences(text, X)
        d == Len(Y) - Len(X)
        shift(i) == i + Cardinality({q \in occ : q < i}) * d
    IN /\ Len(result) = Len(text) + Cardinality(occ) * d
       /\ \A p \in occ :
            WrittenLike(SubSeq(text, p, p + Len(X) - 1),
                        SubSeq(result, shift(p), shift(p) + Len(Y) - 1), Y)
       /\ \A i \in 1..Len(text) :
            (\A q \in occ : i < q \/ i >= q + Len(X)) => result[shift(i)] = text[i]

\* some occurrence of X in text is not yet Y written like it
ReplacingChanges(text, X, Y) ==
    \E p \in Occurrences(text, X) :
        LET occurrence == SubSeq(text, p, p + Len(X) - 1)
        IN ~WrittenLike(occurrence, occurrence, Y)

\* the call returned the direct replacement of X by Y and asked no provider
DirectResult(X, Y) ==
    /\ lastCall.ret.success
    /\ lastCall.ret.method = "direct_replacement"
    /\ ReplacedAll(lastCall.arg.title, X, Y, lastCall.ret.title)
    /\ ReplacedAll(lastCall.arg.content, X, Y, lastCall.ret.content)
    /\ provider_calls = 0

\* C14, as stated: when the instruction matches a replacement phrasing and X
\* occurs in the title or the body, tweak returns success with the direct
\* method, every occurrence of X replaced by Y in the case of the occurrence,
\* and calls no provider.
C14_DirectWhenOccurs ==
    Tweaked =>
        LET ph == Phrasing(lastCall.arg.tweak_instruction)
        IN ph.matched /\ (\/ Occurrences(lastCall.arg.title, ph.X) # {}
                          \/ Occurrences(lastCall.arg.content, ph.X) # {})
           => DirectResult(ph.X, ph.Y)

\* C14, amended: when the instruction matches a replacement phrasing and
\* replacing X by Y changes the title or the body (some occurrence of X is
\* not already Y in the case of that occurrence), tweak returns success with
\* method "direct_replacement", every occurrence of X replaced by Y in
\* capitals, capitalised or in lower case as the occurrence is, and calls no
\* provider.
C14_DirectWhenChanged ==
    Tweaked =>
        LET ph == Phrasing(lastCall.arg.tweak_instruction)
        IN ph.matched /\ (\/ ReplacingChanges(lastCall.arg.title, ph.X, ph.Y)
                          \/ ReplacingChanges(lastCall.arg.content, ph.X, ph.Y))
           => DirectResult(ph.X, ph.Y)

\* "replace colour with color" on the body with colour, Colour and COLOUR
C14_Witness ==
    /\ Tweaked
    /\ lastCall.arg.tweak_instruction = ReplaceColour
    /\ lastCall.arg.content = ColourBody
    /\ lastCall.ret.success
    /\ lastCall.ret.method = "direct_replacement"
    /\ Occurrences(lastCall.ret.content, Phrasing(ReplaceColour).X) = {}
    /\ Cardinality(Occurrences(lastCall.ret.content, Phrasing(ReplaceColour).Y)) = 3
    /\ provider_calls = 0

\* the share of the body that the call changed, as a fraction
BodyChange == _calculate_change_ratio(lastCall.arg.content, lastCall.ret.content)

\* the threshold for an instruction, in percent: 15 with one of the four
\* rewrite terms in it, 5 without
AllowedPercent(tweak_instruction) ==
    IF \E term \in RewriteTerms :
           Contains(Lower(tweak_instruction), term)
    THEN 15 ELSE 5

\* the fraction is more than percent/100
MoreThan(fraction, percent) == fraction.num * 100 > percent * fraction.den

\* C15, as stated: whichever path produced it, a result with success=true has
\* a body whose change ratio against the original body does not exceed the
\* threshold of the instruction.
C15_SuccessWithinThreshold ==
    Tweaked /\ lastCall.ret.success =>
        ~MoreThan(BodyChange, AllowedPercent(lastCall.arg.tweak_instruction))

\* C15, amended: a result of the LLM-mediated path with success=true has a
\* body whose change ratio against the original body does not exceed the
\* threshold of the instruction; a result of the deterministic replacement
\* is returned without that check.
C15_LlmSuccessWithinThreshold ==
    Tweaked /\ lastCall.ret.success /\ lastCall.ret.method = "llm_surgical" =>
        ~MoreThan(BodyChange, AllowedPercent(lastCall.arg.tweak_instruction))

\* an accepted rewrite that changed more than 5% of the body
C15_Witness ==
    /\ Tweaked
    /\ lastCall.ret.success
    /\ lastCall.ret.method = "llm_surgical"
    /\ lastCall.arg.tweak_instruction = RedoEnding
    /\ MoreThan(BodyChange, WordPercent)
    /\ provider_calls = 1

\* the provider was called and wrote a blog back
ProviderWrote == Tweaked /\ provider_calls > 0 /\ ~lastCall.provider.raises

\* the share of the body that the provider's text changes
ProposedChange ==
    _calculate_change_ratio(lastCall.arg.content, ParseNewContent(lastCall.provider.text))

\* the call handed the blog back as it was, with an error message
Rejected ==
    /\ ~lastCall.ret.success
    /\ lastCall.ret.title = lastCall.arg.title
    /\ lastCall.ret.content = lastCall.arg.content
    /\ lastCall.ret.error # ""

\* C16: when the change ratio of an LLM-mediated tweak strictly exceeds the
\* threshold of the instruction, tweak returns success=false with the original
\* title and body and a non-empty error message, after one provider call (the
\* edit is not tried again).
C16_RejectsBeyondThreshold ==
    ProviderWrote /\ MoreThan(ProposedChange, AllowedPercent(lastCall.arg.tweak_instruction))
        => Rejected /\ provider_calls = 1

\* a word-level instruction answered with ten more characters on a body of 49
C16_Witness ==
    /\ ProviderWrote
    /\ lastCall.arg.tweak_instruction = WarmerEnding
    /\ lastCall.arg.content = ColourBody
    /\ MoreThan(ProposedChange, WordPercent)
    /\ ~MoreThan(ProposedChange, RewritePercent)
    /\ Rejected
    /\ lastCall.ret.error = EditRejected
    /\ provider_calls = 1

\* a step that is a tweak_blog() call
TweakCalled == calls' = calls + 1 /\ lastCall'.op = "tweak_blog"

\* C17: a tweak call, whichever way it ends (direct replacement, accepted
\* edit, rejected edit, provider error), leaves the store as it was: the
\* rules, the generated items, the hash index and the learning log, in the
\* instance and in the files.
C17_StoreUnchanged == [][TweakCalled => memory' = memory /\ files' = files]_vars

\* an accepted edit of the blog that is in the store, which keeps its text
C17_Witness ==
    /\ Tweaked
    /\ lastCall.ret.success
    /\ lastCall.ret.method = "llm_surgical"
    /\ Len(memory.generated_blogs) = 1
    /\ memory.generated_blogs[1].content = lastCall.arg.content
    /\ lastCall.ret.content # lastCall.arg.content
    /\ Len(memory.content_hashes) = 1
    /\ files = memory

(***************************************************************************)
(* Properties of persistence                                               *)
(***************************************************************************)
\* C19: in one process, after each mutating call of the store has returned,
\* the four files hold what the instance holds: the preferences, the
\* generated items, the learning log and the hash index.
C19_FilesEqualMemory ==
    lastCall.op \in MutatingCalls =>
        /\ files.preferences = memory.preferences
        /\ files.generated_blogs = memory.generated_blogs
        /\ files.learning_log = memory.learning_log
        /\ files.content_hashes = memory.content_hashes

\* a use of a keyword counted in the instance and in the file
C19_Witness ==
    /\ lastCall.op = "increment_seo_keyword_usage"
    /\ "seo_keywords" \in DOMAIN memory.preferences
    /\ Len(memory.preferences.seo_keywords) = 1
    /\ memory.preferences.seo_keywords[1].times_used = 1
    /\ files.preferences.seo_keywords[1].times_used = 1
    /\ Len(files.learning_log) = 1

\* a step in which the second process makes a call that changes its instance
PeerWrote ==
    /\ calls' = calls + 1
    /\ "process" \in DOMAIN lastCall' /\ lastCall'.process = "P2"
    /\ other_memory' # other_memory

\* C20: two instances that loaded the same files are not isolated.  A
\* mutating call of the second process replaces all four files with the state
\* of its own instance, so that what the first process wrote before it and the
\* second never loaded is no longer in the files.
C20_LastWriterWins ==
    [][PeerWrote => /\ files'.preferences = other_memory'.preferences
                    /\ files'.generated_blogs = other_memory'.generated_blogs
                    /\ files'.learning_log = other_memory'.learning_log
                    /\ files'.content_hashes = other_memory'.content_hashes]_vars

\* the first process banned "b" and saved it; then the second saved a blog:
\* the files hold the blog and no banned word
C20_Witness ==
    /\ "process" \in DOMAIN lastCall /\ lastCall.process = "P2"
    /\ lastCall.op = "save_generated_blog"
    /\ Len(memory.preferences.banned_words) = 1
    /\ memory.preferences.banned_words[1].word = <<"b">>
    /\ Len(memory.learning_log) = 1
    /\ files.preferences.banned_words = <<>>
    /\ Len(files.generated_blogs) = 1
    /\ Len(files.learning_log) = 1
    /\ files = other_memory

(***************************************************************************)
(* Properties of the stored blogs                                          *)
(***************************************************************************)
\* the positions of the approved blogs in the store
ApprovedAt == {i \in 1..Len(memory.generated_blogs) :
                   memory.generated_blogs[i].status = "approved"}

\* C21: get_approved_blogs returns exactly the stored blogs whose status is
\* approved, each once and with its id, the most recently updated first.
C21_ApprovedMostRecentFirst ==
    lastCall.op = "get_approved_blogs" =>
        LET result == lastCall.ret
        IN /\ Len(result) = Cardinality(ApprovedAt)
           /\ \A i \in ApprovedAt : \E k \in 1..Len(result) : result[k] = memory.generated_blogs[i]
           /\ \A k \in 1..Len(result) : \A m \in 1..Len(result) :
                  k # m => result[k].id # result[m].id
           /\ \A k \in 1..(Len(result) - 1) : result[k].updated_at >= result[k + 1].updated_at

\* the first blog was approved after the second: the list starts with it
C21_Witness ==
    /\ lastCall.op = "get_approved_blogs"
    /\ Len(lastCall.ret) = 2
    /\ lastCall.ret[1] = memory.generated_blogs[1]
    /\ lastCall.ret[2] = memory.generated_blogs[2]
    /\ lastCall.ret[1].updated_at > lastCall.ret[2].updated_at

\* C23: the content_hash of every stored blog is the hash of its current
\* body, lowercased and with its whitespace normalized, also after
\* update_blog_content has replaced the body.
C23_HashOfCurrentBody ==
    \A i \in 1..Len(memory.generated_blogs) :
        memory.generated_blogs[i].content_hash
            = JoinSplit(Strip(Lower(memory.generated_blogs[i].content)))

(***************************************************************************)
(* Further properties of the rule store                                    *)
(***************************************************************************)
\* C22: a remove call for a value that matches no active rule of its type
\* changes nothing: the store, the learning log included, and the files are
\* as before the call.
C22_RemoveUnmatchedIsNoOp ==
    [][\A t \in RuleTypes :
          LET active == ActiveValues(World, t)
          IN (/\ calls' = calls + 1
              /\ lastCall'.op = t.remove
              /\ \A i \in 1..Len(active) : Normalized(active[i]) # Normalized(lastCall'.arg))
             => memory' = memory /\ files' = files]_vars

\* C28: after add_banned_word(w), get_banned_words() holds w (lowercased and
\* trimmed), whatever the store held before, also a record of w that an
\* earlier remove_banned_word(w) made inactive.
C28_AddedWordIsActive ==
    lastCall.op = "add_banned_word" =>
        \E i \in 1..Len(get_banned_words(World)) :
            get_banned_words(World)[i] = Strip(Lower(lastCall.arg))

(***************************************************************************)
(* Properties of status and id of the stored blogs                         *)
(***************************************************************************)
\* C24: a stored blog is created as a draft, and its status only moves forward
\* along draft, approved, posted: it is never outside these three and never
\* goes back to an earlier one.
C24_StatusMovesForward ==
    [][LET Order(status) == CASE status = "draft" -> 1
                              [] status = "approved" -> 2
                              [] status = "posted" -> 3
                              [] OTHER -> 0
       IN \A i \in 1..Len(memory'.generated_blogs) :
             IF i > Len(memory.generated_blogs)
             THEN memory'.generated_blogs[i].status = "draft"
             ELSE /\ Order(memory'.generated_blogs[i].status) # 0
                  /\ Order(memory'.generated_blogs[i].status)
                         >= Order(memory.generated_blogs[i].status)]_vars

\* C25: the ids of the stored blogs are pairwise distinct, also when several
\* blogs are saved within the same second.
C25_IdsDistinct ==
    \A i \in 1..Len(memory.generated_blogs) : \A j \in 1..Len(memory.generated_blogs) :
        i # j => memory.generated_blogs[i].id # memory.generated_blogs[j].id

\* a blog has just been saved in the same second as the blog before it
C25_Witness ==
    /\ lastCall.op = "save_generated_blog"
    /\ Len(memory.generated_blogs) >= 2
    /\ LET last == memory.generated_blogs[Len(memory.generated_blogs)]
           before == memory.generated_blogs[Len(memory.generated_blogs) - 1]
       IN /\ last.id = lastCall.ret
          /\ last.id.time = before.id.time
          /\ last.id # before.id

(***************************************************************************)
(* Properties of the retry of generate()                                   *)
(***************************************************************************)
\* a step in which generate() calls messages.create
ProviderCalled == gen.pc = "attempt" /\ provider_calls' = provider_calls + 1

\* C26: the first attempt of every generate call asks with the default budget
\* and the unadjusted prompt, whatever earlier calls left behind.  On a retry
\* the budget is above the default and the prompt says "too short" when the
\* attempt before had fewer than MIN_WORDS words; the budget is below the
\* default and the prompt says "too long" when it had more than MAX_WORDS.
C26_RetryAdjustsBudget ==
    [][ProviderCalled =>
          LET request == gen'.request
              previous == gen.review.word_count
          IN /\ gen.attempt = 1
                => request.max_tokens = 2000 /\ request.prompt.adjusted = "no"
             /\ (gen.attempt > 1 /\ previous < MIN_WORDS)
                => /\ request.max_tokens > 2000
                   /\ request.prompt.adjusted = "too_short"
                   /\ request.prompt.previous = previous
             /\ (gen.attempt > 1 /\ previous > MAX_WORDS)
                => request.max_tokens < 2000 /\ request.prompt.adjusted = "too_long"]_vars

\* the second call on the generator, after an earlier call that returned a
\* draft: its second attempt has asked for less after a draft that was too long
C26_Witness ==
    /\ calls = 2
    /\ Len(usage.requests) = 1
    /\ provider_calls = 2
    /\ gen.request.max_tokens = 1500
    /\ gen.request.prompt.adjusted = "too_long"

\* C29: no two stored blogs have the same content_hash: generate() never
\* saves a draft whose normalized body is the body of a stored blog, whatever
\* the title of the draft.
C29_HashesDistinct ==
    \A i \in 1..Len(memory.generated_blogs) : \A j \in 1..Len(memory.generated_blogs) :
        i # j => memory.generated_blogs[i].content_hash # memory.generated_blogs[j].content_hash

(***************************************************************************)
(* Properties of a save that is cut short                                  *)
(***************************************************************************)
\* the blogs of a store that the content-hash index has no entry for
Unindexed(mem) ==
    {i \in 1..Len(mem.generated_blogs) :
        \A e \in 1..Len(mem.content_hashes) :
            mem.content_hashes[e].blog_id # mem.generated_blogs[i].id}

\* C27: the four files are not written as one unit.  When the process stops
\* in save_generated_blog after the file of the blogs is written and before
\* the file of the content hashes is, the files hold the new blog and no
\* index entry for it, and the store loaded from them is in that state.
C27_StoppedSaveSplitsFiles ==
    [][(/\ calls' = calls + 1
        /\ "stopped" \in DOMAIN lastCall'
        /\ lastCall'.stopped.written \in {2, 3})
       => /\ Len(files'.generated_blogs) = Len(memory.generated_blogs) + 1
          /\ Len(files'.generated_blogs) \in Unindexed(files')
          /\ files'.generated_blogs[Len(files'.generated_blogs)].content = lastCall'.arg[2]
          /\ memory' = files']_vars

\* a store loaded after such a stop: it holds two blogs, the second of them
\* without an entry in the index
C27_Witness ==
    /\ "stopped" \in DOMAIN lastCall
    /\ memory = files
    /\ Len(memory.generated_blogs) = 2
    /\ Len(memory.content_hashes) = 1
    /\ Unindexed(memory) = {2}

(***************************************************************************)
(* Properties of the MemoryDatabase                                        *)
(***************************************************************************)
\* the memories with the tag "test" that retrieve_memories returns from
\* directories d under a limit that no run reaches
Retrievable(d) == retrieve_memories(d, "", <<"test">>, MaxDbCalls + 1)

\* C30: every memory stored stays retrievable: each store_memory call adds
\* one memory to those that retrieve_memories returns for a tag of the call,
\* also when the store before it wrote to the same category in the same
\* second.
C30_StoreAddsOneMemory ==
    [][lastCall'.op = "store_memory"
          => Len(Retrievable(db')) = Len(Retrievable(db)) + 1]_vars

====
